---- MODULE Spec2Model ----
(***************************************************************************)
(* Agent execution supervisor of shannon-proxy:                            *)
(*   src/src/ai/claude-executor.ts                                         *)
(*     runClaudePromptWithRetry  (retry / checkpoint / validation loop)    *)
(*     runClaudePrompt           (one execution of the agent service)      *)
(*     processMessageStream      (consumption of the event stream)         *)
(*     validateAgentOutput       (deliverable validation gate)             *)
(*                                                                         *)
(* The version-control operations (utils/git-manager), the audit session   *)
(* (audit/index), the error classification (error-handling) and the        *)
(* message dispatcher (ai/message-handlers) are imported by that file but  *)
(* their code is not part of the sources at hand: they are modelled from   *)
(* their contracts in the specification (sections 4.2, 4.3, 4.5, 7).       *)
(*                                                                         *)
(* One task is run under each audit configuration of Runs, all fed the     *)
(* same inputs (driver event stream, agent edits, validator outcome), so   *)
(* that the runs can be compared with each other.                          *)
(*                                                                         *)
(* Further specifications: SpecVcs (version-control operations may fail),  *)
(* SpecCall (one call of runClaudePrompt and validateAgentOutput on its    *)
(* own), SpecTwo (two tasks running concurrently), SpecSave                *)
(* (saveDeliverableFile of src/unnamed/part_000), SpecBeat (the loop of    *)
(* processMessageStream event by event, with its clock and heartbeat).     *)
(***************************************************************************)
EXTENDS Integers, Sequences, FiniteSets, TLC

VARIABLES
    agentName,   \* the agentName argument: "null", "unmapped" or "mapped"
    run,         \* run[c]: state of runClaudePromptWithRetry under audit configuration c
    call,        \* one call of runClaudePrompt followed by validateAgentOutput
    task,        \* task[t]: state of runClaudePromptWithRetry of task t, two tasks running concurrently
    fs,          \* fs[d]: the workspace in directory d
    disk         \* the deliverables directories and the calls of saveDeliverableFile

vars == <<agentName, run, call, task, fs, disk>>

\* the value of a variable that is not in use
Idle == [phase |-> "idle"]

(***************************** bounds **************************************)
\* longest event stream the execution service produces in one attempt
MaxStream == 2

(************************ program constants ********************************)
\* const maxRetries = 3
maxRetries == 3

\* audit configurations: no session metadata (auditSession stays null), a
\* session whose sink works, a session whose sink fails on every write
Runs == {"none", "ok", "failing"}

AgentNames == {"null", "unmapped", "mapped"}

(***************************** errors **************************************)
\* the context object of an error constructed without one
NoContext == [description |-> "", sourceDir |-> "", attemptsExhausted |-> 0]

\* the value of `let lastError: Error | undefined` before any assignment
Undefined == [cls |-> "undefined", message |-> "", type |-> "", retryable |-> FALSE,
              partialResults |-> FALSE, context |-> NoContext]

\* new Error(message): a plain error, such as the service or the SDK raises
Error(message) ==
    [cls |-> "Error", message |-> message, type |-> "", retryable |-> FALSE,
     partialResults |-> FALSE, context |-> NoContext]

\* new PentestError(message, type, retryable, context)
PentestError(message, type, retryable, context) ==
    [cls |-> "PentestError", message |-> message, type |-> type, retryable |-> retryable,
     partialResults |-> FALSE, context |-> context]

\* messages of the plain errors the execution service raises: transient
\* (network, rate limit) and permanent (authentication, malformed request)
TransientMessages == {"network"}
PermanentMessages == {"auth"}

\* isRetryableError(err): the classification of section 7
isRetryableError(err) ==
    IF err.cls = "PentestError" THEN err.retryable
    ELSE err.message \in TransientMessages

(************************** result text ************************************)
\* A text is a sequence of words; a `string | null` value is Null or Str(text).
Words == {"done", "Limit"}
Texts == {<<>>} \cup {<<w>> : w \in Words}
Null == {}
Str(text) == {text}

\* the words of the texts given to runClaudePrompt called on its own
CallWords == Words \cup {"SPENDING", "escape", "Budget", "resets"}

\* String.prototype.toLowerCase, word by word
toLowerCaseWord(w) ==
    CASE w = "Limit" -> "limit"
      [] w = "SPENDING" -> "spending"
      [] w = "Budget" -> "budget"
      [] OTHER -> w
toLowerCase(text) == [i \in 1..Len(text) |-> toLowerCaseWord(text[i])]

\* const BILLING_KEYWORDS = ['spending', 'cap', 'limit', 'budget', 'resets']
BILLING_KEYWORDS == {"spending", "cap", "limit", "budget", "resets"}

\* the keywords that occur as a substring of a (lower-case) word
KeywordsIn(w) ==
    CASE w = "limit" -> {"limit"}
      [] w = "spending" -> {"spending"}
      [] w = "budget" -> {"budget"}
      [] w = "resets" -> {"resets"}
      [] w = "escape" -> {"cap"}
      [] OTHER -> {}

\* resultLower.includes(kw)
includes(text, kw) == \E i \in 1..Len(text) : kw \in KeywordsIn(text[i])

\* result || '' : the text of a `string | null`, null read as the empty text
OrEmpty(r) == IF r = Null THEN <<>> ELSE CHOOSE t \in r : TRUE

\* !result.result : null and the empty string are falsy
Falsy(r) == r = Null \/ r = Str(<<>>)

(************************** event stream ***********************************)
\* The events of the execution service, by what dispatchMessage makes of one:
\*   assistant  a turn; `continue`, with apiErrorDetected when the turn's
\*              content carries an in-band API error
\*   tool       `continue`
\*   error      `throw`, the error named by message
\*   result     `complete`, the terminal result with its text and cost
Costs == {0, 1}
Events ==
    [type : {"assistant"}, apiError : BOOLEAN, message : {""}, text : {Null}, cost : {0}]
    \cup [type : {"tool"}, apiError : {FALSE}, message : {""}, text : {Null}, cost : {0}]
    \cup [type : {"error"}, apiError : {FALSE},
          message : TransientMessages \cup PermanentMessages, text : {Null}, cost : {0}]
    \cup [type : {"result"}, apiError : {FALSE}, message : {""},
          text : {Str(t) : t \in Texts}, cost : Costs]

RECURSIVE SeqsUpTo(_, _)
SeqsUpTo(S, n) ==
    IF n = 0 THEN {<<>>}
    ELSE LET shorter == SeqsUpTo(S, n - 1)
         IN  shorter \cup {Append(q, e) : q \in {x \in shorter : Len(x) = n - 1}, e \in S}

\* the service's response (section 6): events that continue the stream, ended
\* by one terminal event (a result or an error) or by the stream running out
Continuing == {e \in Events : e.type \in {"assistant", "tool"}}
Terminal == {e \in Events : e.type \in {"result", "error"}}
Streams ==
    SeqsUpTo(Continuing, MaxStream)
    \cup {Append(q, e) : q \in SeqsUpTo(Continuing, MaxStream - 1), e \in Terminal}

\* dispatchMessage(message, turnCount, deps): throw, complete or continue
dispatchMessage(message) ==
    CASE message.type = "error" ->
            [type |-> "throw", error |-> Error(message.message),
             result |-> Null, cost |-> 0, apiErrorDetected |-> FALSE]
      [] message.type = "result" ->
            [type |-> "complete", error |-> Undefined,
             result |-> message.text, cost |-> message.cost, apiErrorDetected |-> FALSE]
      [] OTHER ->
            [type |-> "continue", error |-> Undefined,
             result |-> Null, cost |-> 0, apiErrorDetected |-> message.apiError]

\* mutant: the counters go on from where the call before left them
LoopStartCarried ==
    [threw |-> FALSE, error |-> Undefined, turnCount |-> call.previous.turns, result |-> Null,
     apiErrorDetected |-> FALSE, cost |-> call.previous.cost, consumed |-> 0]

\* the state of processMessageStream's loop before the first event
LoopStart ==
    [threw |-> FALSE, error |-> Undefined, turnCount |-> 0, result |-> Null,
     apiErrorDetected |-> FALSE, cost |-> 0, consumed |-> 0]

\* mutant: every continuing event sets the flag anew
RECURSIVE MessageLoopFlagOverwritten(_, _, _)
MessageLoopFlagOverwritten(stream, i, st) ==
    IF i > Len(stream) THEN st
    ELSE LET message == stream[i]
             turns == IF message.type = "assistant" THEN st.turnCount + 1 ELSE st.turnCount
             d == dispatchMessage(message)
             seen == [st EXCEPT !.turnCount = turns, !.consumed = i]
         IN  CASE d.type = "throw" -> [seen EXCEPT !.threw = TRUE, !.error = d.error]
               [] d.type = "complete" -> [seen EXCEPT !.result = d.result, !.cost = d.cost]
               [] OTHER ->
                    MessageLoopFlagOverwritten(stream, i + 1,
                        [seen EXCEPT !.apiErrorDetected = d.apiErrorDetected])

\* mutant: the loop goes on after a result event
RECURSIVE MessageLoopNoBreak(_, _, _)
MessageLoopNoBreak(stream, i, st) ==
    IF i > Len(stream) THEN st
    ELSE LET message == stream[i]
             turns == IF message.type = "assistant" THEN st.turnCount + 1 ELSE st.turnCount
             d == dispatchMessage(message)
             seen == [st EXCEPT !.turnCount = turns, !.consumed = i]
         IN  CASE d.type = "throw" -> [seen EXCEPT !.threw = TRUE, !.error = d.error]
               [] d.type = "complete" ->
                    MessageLoopNoBreak(stream, i + 1,
                        [seen EXCEPT !.result = d.result, !.cost = d.cost])
               [] OTHER ->
                    MessageLoopNoBreak(stream, i + 1,
                        IF d.apiErrorDetected THEN [seen EXCEPT !.apiErrorDetected = TRUE]
                        ELSE seen)

\* for await (const message of query(...)) { ... } from event i on, in loop state st
RECURSIVE MessageLoop(_, _, _)
MessageLoop(stream, i, st) ==
    IF i > Len(stream) THEN st
    ELSE LET message == stream[i]
             turns == IF message.type = "assistant" THEN st.turnCount + 1 ELSE st.turnCount
             d == dispatchMessage(message)
             seen == [st EXCEPT !.turnCount = turns, !.consumed = i]
         IN  CASE d.type = "throw" -> [seen EXCEPT !.threw = TRUE, !.error = d.error]
               [] d.type = "complete" -> [seen EXCEPT !.result = d.result, !.cost = d.cost]
               [] OTHER ->
                    MessageLoop(stream, i + 1,
                        IF d.apiErrorDetected THEN [seen EXCEPT !.apiErrorDetected = TRUE]
                        ELSE seen)

processMessageStream(stream) == MessageLoop(stream, 1, LoopStart)

(************************* execution driver ********************************)
\* A ClaudePromptResult is an object: id tells the objects apart (0 as
\* returned by runClaudePrompt; the caller's attempt number once received).
\* the ClaudePromptResult of the catch block: the error turned into a result
FailureResult(err, totalCost) ==
    [id |-> 0, success |-> FALSE, result |-> Null, turns |-> 0, cost |-> totalCost,
     partialCost |-> 0, apiErrorDetected |-> FALSE, error |-> err.message,
     errorType |-> err.cls, retryable |-> isRetryableError(err)]

\* mutant: the safeguard does not look at the cost
looksLikeBillingErrorAtAnyCost(turnCount, totalCost, result) ==
    /\ turnCount <= 2
    /\ \E kw \in BILLING_KEYWORDS : includes(toLowerCase(OrEmpty(result)), kw)

\* mutant: the safeguard looks at one-turn answers only
looksLikeBillingErrorOneTurn(turnCount, totalCost, result) ==
    /\ turnCount < 2
    /\ totalCost = 0
    /\ \E kw \in BILLING_KEYWORDS : includes(toLowerCase(OrEmpty(result)), kw)

\* the spending-cap safeguard
looksLikeBillingError(turnCount, totalCost, result) ==
    /\ turnCount <= 2
    /\ totalCost = 0
    /\ \E kw \in BILLING_KEYWORDS : includes(toLowerCase(OrEmpty(result)), kw)

\* mutant: a failed write of the error log is raised
writeErrorLogRaises(err, appendFails) ==
    [log |-> IF appendFails THEN "failed" ELSE "written",
     threw |-> appendFails, error |-> IF appendFails THEN Error("EACCES") ELSE Undefined]

\* writeErrorLog(err, sourceDir, fullPrompt, duration): the entry is appended
\* to error.log in a try block whose catch block prints a message and no more
writeErrorLog(err, appendFails) ==
    [log |-> IF appendFails THEN "failed" ELSE "written", threw |-> FALSE, error |-> Undefined]

\* the catch block of runClaudePrompt: log the error, return it as a result
catchBlock(err, totalCost, appendFails) ==
    LET w == writeErrorLog(err, appendFails)
    IN  [threw |-> w.threw, error |-> w.error, log |-> w.log,
         result |-> IF w.threw THEN Undefined ELSE FailureResult(err, totalCost)]

\* runClaudePrompt from its try block on, for an event stream and an error log
\* that can or cannot be appended to: what it returns or rejects with
runClaudePromptOutcome(stream, appendFails) ==
    LET m == processMessageStream(stream)
    IN  IF m.threw THEN catchBlock(m.error, 0, appendFails)
        ELSE IF looksLikeBillingError(m.turnCount, m.cost, m.result)
        THEN catchBlock(PentestError("Spending cap likely reached", "billing", TRUE, NoContext),
                        m.cost, appendFails)
        ELSE [threw |-> FALSE, error |-> Undefined, log |-> "none",
              result |-> [id |-> 0, success |-> TRUE, result |-> m.result, turns |-> m.turnCount,
                          cost |-> m.cost, partialCost |-> m.cost,
                          apiErrorDetected |-> m.apiErrorDetected,
                          error |-> "", errorType |-> "", retryable |-> FALSE]]

\* the result runClaudePrompt returns for an event stream
runClaudePrompt(stream) == runClaudePromptOutcome(stream, FALSE).result

\* the value of `result` where no driver result is in scope
NoResult ==
    [id |-> 0, success |-> FALSE, result |-> Null, turns |-> 0, cost |-> 0, partialCost |-> 0,
     apiErrorDetected |-> FALSE, error |-> "", errorType |-> "none", retryable |-> FALSE]

(************************ validator gate ***********************************)
\* the agent kinds with an entry in AGENT_VALIDATORS
RegisteredAgents == {"mapped"}

\* what the registered predicate does when applied to the workspace
Predicates == {"true", "false", "throws"}

\* mutant: an empty result text is let through
validatorCallEmptyTextAccepted(result, name, predicate) ==
    IF ~result.success \/ result.result = Null
    THEN [value |-> FALSE, invoked |-> FALSE, caught |-> FALSE]
    ELSE IF name \notin RegisteredAgents
    THEN [value |-> TRUE, invoked |-> FALSE, caught |-> FALSE]
    ELSE IF predicate = "throws"
    THEN [value |-> FALSE, invoked |-> TRUE, caught |-> TRUE]
    ELSE [value |-> predicate = "true", invoked |-> TRUE, caught |-> FALSE]

\* validateAgentOutput(result, agentName, sourceDir), the registered
\* predicate (if any) behaving as `predicate` on sourceDir;
\* value: what is returned; invoked: whether `await validator(sourceDir)` was
\* reached; caught: whether the catch block took an exception
validatorCall(result, name, predicate) ==
    IF ~result.success \/ Falsy(result.result)
    THEN [value |-> FALSE, invoked |-> FALSE, caught |-> FALSE]
    ELSE IF name \notin RegisteredAgents
    THEN [value |-> TRUE, invoked |-> FALSE, caught |-> FALSE]
    ELSE IF predicate = "throws"
    THEN [value |-> FALSE, invoked |-> TRUE, caught |-> TRUE]
    ELSE [value |-> predicate = "true", invoked |-> TRUE, caught |-> FALSE]

validateAgentOutput(result, name, predicate) == validatorCall(result, name, predicate).value

(********************** state of one task **********************************)
\* the workspace tree is the set of edits present in it; attempt n's edit is n
\* in task 1 and maxRetries + n in task 2
EditId(s) == s.attempt + maxRetries * (s.task - 1)

Running == [kind |-> "running", result |-> NoResult, error |-> Undefined]
Returned(r) == [kind |-> "returned", result |-> r, error |-> Undefined]
Threw(e) == [kind |-> "threw", result |-> NoResult, error |-> e]

InitRun(c) ==
    [cfg |-> c,                 \* audit configuration of this run
     task |-> 1,                \* the number of the task
     sourceDir |-> "repo",      \* the sourceDir argument: the task's workspace directory
     description |-> "analysis",\* the description argument
     pc |-> "checkpoint",       \* position in runClaudePromptWithRetry
     attempt |-> 1,             \* let attempt = 1
     lastError |-> Undefined,   \* let lastError: Error | undefined
     retryContext |-> <<>>,     \* let retryContext = context; <<n>>: context plus attempt n's partial results
     result |-> NoResult,       \* const result = await runClaudePrompt(...)
     err |-> Undefined,         \* the error caught by catch (error)
     delay |-> 0,               \* const delay = getRetryDelay(err, attempt)
     tree |-> {},               \* working tree of sourceDir
     head |-> {},               \* tree of the HEAD commit of sourceDir
     commits |-> <<>>,          \* commits made in sourceDir
     audit |-> <<>>,            \* records the audit sink holds
     ops |-> <<>>,              \* operations performed so far, in order
     outcome |-> Running]       \* how the call ended

\* auditSession && agentName
Wired(s) == s.cfg # "none" /\ agentName # "null"

\* the record of an operation: its name, the attempt, what came of it and the
\* working tree before and after it
Did(s, op, info, before) ==
    [s EXCEPT !.ops = Append(@, [op |-> op, attempt |-> s.attempt, info |-> info,
                                  before |-> before, after |-> s.tree])]

(*********************** checkpoint manager ********************************)
\* createGitCheckpoint(sourceDir, description, attempt): stage all, commit
createGitCheckpoint(s) ==
    Did([s EXCEPT !.head = s.tree,
                  !.commits = Append(@, [label |-> "checkpoint", attempt |-> s.attempt,
                                         tree |-> s.tree])],
        "checkpoint", "", s.tree)

\* commitGitSuccess(sourceDir, description): stage all, commit
commitGitSuccess(s) ==
    Did([s EXCEPT !.head = s.tree,
                  !.commits = Append(@, [label |-> "success", attempt |-> s.attempt,
                                         tree |-> s.tree])],
        "commit", "", s.tree)

\* rollbackGitWorkspace(sourceDir, reason): hard reset to HEAD, remove untracked
rollbackGitWorkspace(s, reason) ==
    Did([s EXCEPT !.tree = s.head], "rollback", reason, s.tree)

\* getGitCommitHash(sourceDir): the HEAD handle, 0 when there is no commit
getGitCommitHash(s) == Len(s.commits)

(************************* audit recorder **********************************)
AuditStart(s) ==
    [kind |-> "start", attemptNumber |-> s.attempt, success |-> FALSE, cost_usd |-> 0,
     error |-> "", isFinalAttempt |-> FALSE, checkpoint |-> 0, prompt |-> s.retryContext]

AuditEnd(s, success, cost, error, final, checkpoint) ==
    [kind |-> "end", attemptNumber |-> s.attempt, success |-> success, cost_usd |-> cost,
     error |-> error, isFinalAttempt |-> final, checkpoint |-> checkpoint, prompt |-> <<>>]

\* a write to the sink: kept when the sink works, lost (caught, logged) when not
Record(s, rec) == IF s.cfg = "ok" THEN [s EXCEPT !.audit = Append(@, rec)] ELSE s

\* auditSession.startAgent(agentName, fullPrompt, attempt)
startAgent(s) == Did(Record(s, AuditStart(s)), "startAgent", "", s.tree)

\* auditSession.endAgent(agentName, endResult)
endAgent(s, rec) ==
    Did(Record(s, rec), "endAgent", IF rec.success THEN "success" ELSE rec.error, s.tree)

(************************** backoff ****************************************)
\* getRetryDelay(err, attempt): from the classification and the attempt number
getRetryDelay(err, attempt) == IF err.type = "billing" THEN 10 * attempt ELSE attempt

(************************ retry supervisor *********************************)
\* mutant: the loop counter jumps to the last attempt
NextAttemptSkips(s) ==
    IF s.attempt < maxRetries
    THEN [s EXCEPT !.attempt = maxRetries, !.pc = "checkpoint", !.result = NoResult,
                   !.err = Undefined]
    ELSE [s EXCEPT !.pc = "done", !.result = NoResult, !.err = Undefined,
                   !.outcome = Threw(s.lastError)]

\* for (...; attempt <= maxRetries; attempt++): the next iteration, or, the
\* loop left, `throw lastError`
NextAttempt(s) ==
    IF s.attempt < maxRetries
    THEN [s EXCEPT !.attempt = @ + 1, !.pc = "checkpoint", !.result = NoResult,
                   !.err = Undefined]
    ELSE [s EXCEPT !.pc = "done", !.result = NoResult, !.err = Undefined,
                   !.outcome = Threw(s.lastError)]

\* mutant: the checkpoint is taken before the first attempt only
StepCheckpointFirstOnly(s) ==
    [(IF s.attempt = 1 THEN createGitCheckpoint(s) ELSE s) EXCEPT !.pc = "startAgent"]

\* await createGitCheckpoint(sourceDir, description, attempt)
StepCheckpoint(s) == [createGitCheckpoint(s) EXCEPT !.pc = "startAgent"]

\* if (auditSession && agentName) await auditSession.startAgent(...)
StepStartAgent(s) == [(IF Wired(s) THEN startAgent(s) ELSE s) EXCEPT !.pc = "driver"]

\* the agent's edits of the workspace during one execution
Edit(s, edited) == IF edited THEN [s EXCEPT !.tree = @ \cup {EditId(s)}] ELSE s

\* const result = await runClaudePrompt(...); if (result.success) {...}:
\* a success goes on to validation, a failure result leaves the try block
StepDriver(s, stream, edited) ==
    LET r == runClaudePrompt(stream)
        t == Did(Edit(s, edited), "driver",
                 IF r.success THEN "success"
                 ELSE IF r.retryable THEN "failure-retryable" ELSE "failure-fatal",
                 s.tree)
    IN  IF r.success THEN [t EXCEPT !.pc = "validate", !.result = [r EXCEPT !.id = s.attempt]]
        ELSE NextAttempt(t)

\* runClaudePrompt rejects: an error raised outside its own try block
\* (setting up the run, or logging the caught error in its catch block)
StepDriverThrows(s, e, edited) ==
    [Did(Edit(s, edited), "driver",
         IF isRetryableError(e) THEN "throw-retryable" ELSE "throw-fatal", s.tree)
        EXCEPT !.pc = "catch", !.err = e]

\* mutant: an exception of the predicate leaves validateAgentOutput and
\* reaches the catch block of runClaudePromptWithRetry
StepValidateExceptionPropagates(s, predicate) ==
    LET v == validatorCall(s.result, agentName, predicate)
        passed == v.value
        t == Did(s, "validate", IF passed THEN "passed" ELSE "failed", s.tree)
    IN  IF v.caught
        THEN [Did(s, "validatorCatch", "threw", s.tree)
                 EXCEPT !.pc = "catch", !.err = Error("validator")]
        ELSE [t EXCEPT !.pc = IF passed THEN "endSuccess" ELSE "endValidationFailure"]

\* mutant: a result without text passes validation
StepValidateNullTextPasses(s, predicate) ==
    LET v == validatorCall(s.result, agentName, predicate)
        passed == v.value \/ s.result.result = Null
        u == IF v.caught THEN Did(s, "validatorCatch", "threw", s.tree) ELSE s
        t == Did(u, "validate", IF passed THEN "passed" ELSE "failed", s.tree)
    IN  [t EXCEPT !.pc = IF passed THEN "endSuccess" ELSE "endValidationFailure"]

\* const validationPassed = await validateAgentOutput(result, agentName, sourceDir);
\* the catch block of validateAgentOutput is recorded when it takes an exception
StepValidate(s, predicate) ==
    LET v == validatorCall(s.result, agentName, predicate)
        passed == v.value
        u == IF v.caught THEN Did(s, "validatorCatch", "threw", s.tree) ELSE s
        t == Did(u, "validate", IF passed THEN "passed" ELSE "failed", s.tree)
    IN  [t EXCEPT !.pc = IF passed THEN "endSuccess" ELSE "endValidationFailure"]

\* mutant: a failure of the audit write is raised into the catch block
StepEndSuccessAuditRaises(s) ==
    IF Wired(s) /\ s.cfg = "failing"
    THEN [Did(s, "endAgent", "success", s.tree)
            EXCEPT !.pc = "catch", !.err = Error("audit write failed")]
    ELSE [(IF Wired(s)
           THEN endAgent(s, AuditEnd(s, TRUE, s.result.cost, "", FALSE, getGitCommitHash(s)))
           ELSE s) EXCEPT !.pc = "commit"]

\* validation passed: if (auditSession && agentName) { getGitCommitHash; endAgent(success) }
StepEndSuccess(s) ==
    [(IF Wired(s)
      THEN endAgent(s, AuditEnd(s, TRUE, s.result.cost, "", FALSE, getGitCommitHash(s)))
      ELSE s) EXCEPT !.pc = "commit"]

\* mutant: the success commit is made but the loop is not left
StepCommitNoReturn(s) == NextAttempt(commitGitSuccess(s))

\* await commitGitSuccess(sourceDir, description); return result
StepCommit(s) ==
    [commitGitSuccess(s) EXCEPT !.pc = "done", !.outcome = Returned(s.result)]

\* result.partialCost || result.cost || 0
PartialCost(r) == IF r.partialCost # 0 THEN r.partialCost ELSE r.cost

\* mutant: the validation failure is not recorded in the audit session
StepEndValidationFailureUnrecorded(s) ==
    LET u == [s EXCEPT !.lastError =
                 IF s.result.apiErrorDetected
                 THEN Error("API Error: terminated with validation failure")
                 ELSE Error("Output validation failed")]
    IN  IF s.attempt < maxRetries THEN [u EXCEPT !.pc = "rollbackValidation"]
        ELSE [u EXCEPT !.pc = "catch",
                       !.err = PentestError("failed output validation", "validation",
                                            FALSE,
                                            [description |-> s.description,
                                             sourceDir |-> s.sourceDir,
                                             attemptsExhausted |-> maxRetries])]

\* mutant: on the last attempt the plain lastError is thrown instead of the
\* validation PentestError
StepEndValidationFailureThrowsLastError(s) ==
    LET t == IF Wired(s)
             THEN endAgent(s, AuditEnd(s, FALSE, PartialCost(s.result),
                                       "Output validation failed",
                                       s.attempt = maxRetries, 0))
             ELSE s
        u == [t EXCEPT !.lastError = Error("Output validation failed")]
    IN  IF s.attempt < maxRetries THEN [u EXCEPT !.pc = "rollbackValidation"]
        ELSE [u EXCEPT !.pc = "catch", !.err = u.lastError]

\* validation failed: endAgent(failure), lastError, then rollback-and-continue
\* or, on the last attempt, throw the validation PentestError (caught below)
StepEndValidationFailure(s) ==
    LET t == IF Wired(s)
             THEN endAgent(s, AuditEnd(s, FALSE, PartialCost(s.result),
                                       "Output validation failed",
                                       s.attempt = maxRetries, 0))
             ELSE s
        u == [t EXCEPT !.lastError =
                 IF s.result.apiErrorDetected
                 THEN Error("API Error: terminated with validation failure")
                 ELSE Error("Output validation failed")]
    IN  IF s.attempt < maxRetries THEN [u EXCEPT !.pc = "rollbackValidation"]
        ELSE [u EXCEPT !.pc = "catch",
                       !.err = PentestError("failed output validation", "validation",
                                            FALSE,
                                            [description |-> s.description,
                                             sourceDir |-> s.sourceDir,
                                             attemptsExhausted |-> maxRetries])]

\* mutant: the retry after a validation failure waits as the one after an error does
StepRollbackValidationBacksOff(s) ==
    [rollbackGitWorkspace(s, "validation failure") EXCEPT !.pc = "sleep"]

\* mutant: the rolled back workspace is committed as a success
StepRollbackValidationThenCommit(s) ==
    NextAttempt(commitGitSuccess(rollbackGitWorkspace(s, "validation failure")))

\* mutant: the next attempt is started without the rollback
StepRollbackValidationSkipped(s) == NextAttempt(s)

\* await rollbackGitWorkspace(sourceDir, 'validation failure'); continue
StepRollbackValidation(s) == NextAttempt(rollbackGitWorkspace(s, "validation failure"))

\* mutant: the end record of a fatal error says that the attempt was the last
StepCatchFinalWhenFatal(s) ==
    LET t == [s EXCEPT !.lastError = s.err]
        u == IF Wired(s)
             THEN endAgent(t, AuditEnd(t, FALSE, 0, s.err.message,
                                       s.attempt = maxRetries \/ ~isRetryableError(s.err), 0))
             ELSE t
    IN  [u EXCEPT !.pc = IF ~isRetryableError(s.err) THEN "rollbackNonRetryable"
                         ELSE IF s.attempt < maxRetries THEN "rollbackRetryable"
                         ELSE "rollbackFinal"]

\* catch (error): lastError = err; endAgent(failure); classification
StepCatch(s) ==
    LET t == [s EXCEPT !.lastError = s.err]
        u == IF Wired(s)
             THEN endAgent(t, AuditEnd(t, FALSE, 0, s.err.message,
                                       s.attempt = maxRetries, 0))
             ELSE t
    IN  [u EXCEPT !.pc = IF ~isRetryableError(s.err) THEN "rollbackNonRetryable"
                         ELSE IF s.attempt < maxRetries THEN "rollbackRetryable"
                         ELSE "rollbackFinal"]

\* mutant: the final cleanup is made as well before the error is thrown
StepRollbackNonRetryableAndFinal(s) ==
    [rollbackGitWorkspace(rollbackGitWorkspace(s, "non-retryable error cleanup"),
                          "final failure cleanup")
        EXCEPT !.pc = "done", !.outcome = Threw(s.err)]

\* await rollbackGitWorkspace(sourceDir, 'non-retryable error cleanup'); throw err
StepRollbackNonRetryable(s) ==
    [rollbackGitWorkspace(s, "non-retryable error cleanup")
        EXCEPT !.pc = "done", !.outcome = Threw(s.err)]

\* mutant: the partial results are added to the context of the attempt that failed
StepRollbackRetryableAccumulates(s) ==
    [rollbackGitWorkspace(s, "retryable error cleanup")
        EXCEPT !.pc = "sleep",
               !.delay = getRetryDelay(s.err, s.attempt),
               !.retryContext = IF s.err.partialResults THEN Append(@, s.attempt) ELSE @]

\* await rollbackGitWorkspace(sourceDir, 'retryable error cleanup'); the delay;
\* if (err.partialResults) retryContext = context + partial results
StepRollbackRetryable(s) ==
    [rollbackGitWorkspace(s, "retryable error cleanup")
        EXCEPT !.pc = "sleep",
               !.delay = getRetryDelay(s.err, s.attempt),
               !.retryContext = IF s.err.partialResults THEN <<s.attempt>> ELSE @]

\* await new Promise(resolve => setTimeout(resolve, delay))
StepSleep(s) == NextAttempt([Did(s, "sleep", "", s.tree) EXCEPT !.delay = 0])

\* await rollbackGitWorkspace(sourceDir, 'final failure cleanup'); the loop ends
StepRollbackFinal(s) == NextAttempt(rollbackGitWorkspace(s, "final failure cleanup"))

(***************************** actions *************************************)
\* every run at position p takes step F
At(p) == \E c \in Runs : run[c].pc = p

\* errors runClaudePrompt can reject with
ThrownErrors ==
    {[Error(m) EXCEPT !.partialResults = p] :
        m \in TransientMessages \cup PermanentMessages, p \in BOOLEAN}

Init ==
    /\ agentName \in AgentNames
    /\ run = [c \in Runs |-> InitRun(c)]
    /\ call = Idle /\ task = Idle /\ fs = Idle /\ disk = Idle

Checkpoint ==
    /\ At("checkpoint")
    /\ run' = [c \in Runs |-> IF run[c].pc = "checkpoint" THEN StepCheckpoint(run[c]) ELSE run[c]]
    /\ UNCHANGED <<agentName, call, task, fs, disk>>

StartAgent ==
    /\ At("startAgent")
    /\ run' = [c \in Runs |-> IF run[c].pc = "startAgent" THEN StepStartAgent(run[c]) ELSE run[c]]
    /\ UNCHANGED <<agentName, call, task, fs, disk>>

Driver ==
    /\ At("driver")
    /\ \E stream \in Streams, edited \in BOOLEAN :
          run' = [c \in Runs |-> IF run[c].pc = "driver"
                                 THEN StepDriver(run[c], stream, edited) ELSE run[c]]
    /\ UNCHANGED <<agentName, call, task, fs, disk>>

DriverThrows ==
    /\ At("driver")
    /\ \E e \in ThrownErrors, edited \in BOOLEAN :
          run' = [c \in Runs |-> IF run[c].pc = "driver"
                                 THEN StepDriverThrows(run[c], e, edited) ELSE run[c]]
    /\ UNCHANGED <<agentName, call, task, fs, disk>>

Validate ==
    /\ At("validate")
    /\ \E predicate \in Predicates :
          run' = [c \in Runs |-> IF run[c].pc = "validate"
                                 THEN StepValidate(run[c], predicate) ELSE run[c]]
    /\ UNCHANGED <<agentName, call, task, fs, disk>>

EndAgentSuccess ==
    /\ At("endSuccess")
    /\ run' = [c \in Runs |-> IF run[c].pc = "endSuccess" THEN StepEndSuccess(run[c]) ELSE run[c]]
    /\ UNCHANGED <<agentName, call, task, fs, disk>>

CommitSuccess ==
    /\ At("commit")
    /\ run' = [c \in Runs |-> IF run[c].pc = "commit" THEN StepCommit(run[c]) ELSE run[c]]
    /\ UNCHANGED <<agentName, call, task, fs, disk>>

EndAgentValidationFailure ==
    /\ At("endValidationFailure")
    /\ run' = [c \in Runs |-> IF run[c].pc = "endValidationFailure"
                              THEN StepEndValidationFailure(run[c]) ELSE run[c]]
    /\ UNCHANGED <<agentName, call, task, fs, disk>>

RollbackValidationFailure ==
    /\ At("rollbackValidation")
    /\ run' = [c \in Runs |-> IF run[c].pc = "rollbackValidation"
                              THEN StepRollbackValidation(run[c]) ELSE run[c]]
    /\ UNCHANGED <<agentName, call, task, fs, disk>>

CatchError ==
    /\ At("catch")
    /\ run' = [c \in Runs |-> IF run[c].pc = "catch" THEN StepCatch(run[c]) ELSE run[c]]
    /\ UNCHANGED <<agentName, call, task, fs, disk>>

RollbackNonRetryable ==
    /\ At("rollbackNonRetryable")
    /\ run' = [c \in Runs |-> IF run[c].pc = "rollbackNonRetryable"
                              THEN StepRollbackNonRetryable(run[c]) ELSE run[c]]
    /\ UNCHANGED <<agentName, call, task, fs, disk>>

RollbackRetryable ==
    /\ At("rollbackRetryable")
    /\ run' = [c \in Runs |-> IF run[c].pc = "rollbackRetryable"
                              THEN StepRollbackRetryable(run[c]) ELSE run[c]]
    /\ UNCHANGED <<agentName, call, task, fs, disk>>

BackoffSleep ==
    /\ At("sleep")
    /\ run' = [c \in Runs |-> IF run[c].pc = "sleep" THEN StepSleep(run[c]) ELSE run[c]]
    /\ UNCHANGED <<agentName, call, task, fs, disk>>

RollbackFinalFailure ==
    /\ At("rollbackFinal")
    /\ run' = [c \in Runs |-> IF run[c].pc = "rollbackFinal"
                              THEN StepRollbackFinal(run[c]) ELSE run[c]]
    /\ UNCHANGED <<agentName, call, task, fs, disk>>

Next ==
    \/ Checkpoint
    \/ StartAgent
    \/ Driver
    \/ DriverThrows
    \/ Validate
    \/ EndAgentSuccess
    \/ CommitSuccess
    \/ EndAgentValidationFailure
    \/ RollbackValidationFailure
    \/ CatchError
    \/ RollbackNonRetryable
    \/ RollbackRetryable
    \/ BackoffSleep
    \/ RollbackFinalFailure

Spec == Init /\ [][Next]_vars

(******************* failing version-control operations *******************)
\* the error a failing version-control operation rejects with; it is not a
\* transient error (section 4.3: any such failure is fatal)
VcsOps == {"checkpoint", "commitHash", "commit", "rollback"}
VcsError(op) == Error(op)

\* createGitCheckpoint rejects: the call is outside the try block, so
\* runClaudePromptWithRetry rejects with the same error
StepCheckpointFails(s) ==
    [Did(s, "checkpoint", "failed", s.tree)
        EXCEPT !.pc = "done", !.outcome = Threw(VcsError("checkpoint"))]

\* getGitCommitHash rejects (it is called only with an audit session wired):
\* inside the try block, so the catch block takes the error
StepEndSuccessHashFails(s) ==
    IF Wired(s)
    THEN [Did(s, "commitHash", "failed", s.tree)
             EXCEPT !.pc = "catch", !.err = VcsError("commitHash")]
    ELSE StepEndSuccess(s)

\* mutant: the failure of commitGitSuccess is swallowed and the result returned
StepCommitFailsSwallowed(s) ==
    [Did(s, "commit", "failed", s.tree) EXCEPT !.pc = "done", !.outcome = Returned(s.result)]

\* commitGitSuccess rejects: inside the try block
StepCommitFails(s) ==
    [Did(s, "commit", "failed", s.tree) EXCEPT !.pc = "catch", !.err = VcsError("commit")]

\* rollbackGitWorkspace(sourceDir, 'validation failure') rejects: inside the try block
StepRollbackValidationFails(s) ==
    [Did(s, "rollback", "failed", s.tree) EXCEPT !.pc = "catch", !.err = VcsError("rollback")]

\* a rollbackGitWorkspace of the catch block rejects: nothing encloses it
StepRollbackInCatchFails(s) ==
    [Did(s, "rollback", "failed", s.tree)
        EXCEPT !.pc = "done", !.outcome = Threw(VcsError("rollback"))]

CheckpointFails ==
    /\ At("checkpoint")
    /\ run' = [c \in Runs |-> IF run[c].pc = "checkpoint"
                              THEN StepCheckpointFails(run[c]) ELSE run[c]]
    /\ UNCHANGED <<agentName, call, task, fs, disk>>

CommitHashFails ==
    /\ \E c \in Runs : run[c].pc = "endSuccess" /\ Wired(run[c])
    /\ run' = [c \in Runs |-> IF run[c].pc = "endSuccess"
                              THEN StepEndSuccessHashFails(run[c]) ELSE run[c]]
    /\ UNCHANGED <<agentName, call, task, fs, disk>>

CommitFails ==
    /\ At("commit")
    /\ run' = [c \in Runs |-> IF run[c].pc = "commit"
                              THEN StepCommitFails(run[c]) ELSE run[c]]
    /\ UNCHANGED <<agentName, call, task, fs, disk>>

RollbackValidationFails ==
    /\ At("rollbackValidation")
    /\ run' = [c \in Runs |-> IF run[c].pc = "rollbackValidation"
                              THEN StepRollbackValidationFails(run[c]) ELSE run[c]]
    /\ UNCHANGED <<agentName, call, task, fs, disk>>

RollbackInCatchFails ==
    /\ \E p \in {"rollbackNonRetryable", "rollbackRetryable", "rollbackFinal"} :
          /\ At(p)
          /\ run' = [c \in Runs |-> IF run[c].pc = p
                                    THEN StepRollbackInCatchFails(run[c]) ELSE run[c]]
    /\ UNCHANGED <<agentName, call, task, fs, disk>>

NextVcs ==
    \/ Next
    \/ CheckpointFails
    \/ CommitHashFails
    \/ CommitFails
    \/ RollbackValidationFails
    \/ RollbackInCatchFails

\* the task with version-control operations that may fail
SpecVcs == Init /\ [][NextVcs]_vars

(************ runClaudePrompt and validateAgentOutput on their own *********)
\* Calls of runClaudePrompt, each followed by validateAgentOutput on its
\* result, made one after another in one process as the attempts of a task are.
\* longest event stream given to runClaudePrompt called on its own
MaxCallStream == 4

\* most calls of runClaudePrompt made one after another
MaxCalls == 2

CallTexts ==
    {<<>>} \cup {<<w>> : w \in CallWords} \cup {<<"done", w>> : w \in CallWords}

CallTerminal ==
    {e \in Events : e.type = "error"}
    \cup [type : {"result"}, apiError : {FALSE}, message : {""},
          text : {Str(t) : t \in CallTexts}, cost : Costs]

\* a stream that goes on after its result event
TrailingStreams ==
    {Append(q, e) : q \in {s \in Streams : Len(s) > 0 /\ s[Len(s)].type = "result"},
                    e \in Events}

CallStreams ==
    SeqsUpTo(Continuing, MaxCallStream)
    \cup {Append(q, e) : q \in SeqsUpTo(Continuing, MaxCallStream - 1), e \in CallTerminal}
    \cup TrailingStreams

InitCall ==
    /\ agentName \in AgentNames
    /\ call = [phase |-> "input", stream |-> <<>>, result |-> NoResult,
               predicate |-> "", valid |-> FALSE, invoked |-> FALSE,
               calls |-> 1, previous |-> NoResult, consumed |-> 0,
               log |-> "none", threw |-> FALSE]
    /\ run = Idle /\ task = Idle /\ fs = Idle /\ disk = Idle

\* const result = await runClaudePrompt(...), the service answering with
\* stream (the longer streams are given to the first call)
CallDriver ==
    /\ call.phase = "input"
    /\ \E stream \in IF call.calls = 1 THEN CallStreams ELSE Streams, appendFails \in BOOLEAN :
          LET o == runClaudePromptOutcome(stream, appendFails)
          IN  call' = [call EXCEPT !.phase = "driven", !.stream = stream,
                                   !.result = IF o.threw THEN NoResult ELSE o.result,
                                   !.consumed = processMessageStream(stream).consumed,
                                   !.log = o.log, !.threw = o.threw]
    /\ UNCHANGED <<agentName, run, task, fs, disk>>

\* await validateAgentOutput(result, agentName, sourceDir)
CallValidator ==
    /\ call.phase = "driven"
    /\ \E predicate \in Predicates :
          LET v == validatorCall(call.result, agentName, predicate)
          IN  call' = [call EXCEPT !.phase = "validated", !.predicate = predicate,
                                   !.valid = v.value, !.invoked = v.invoked]
    /\ UNCHANGED <<agentName, run, task, fs, disk>>

\* the next attempt's call of runClaudePrompt begins
CallAgain ==
    /\ call.phase = "validated"
    /\ call.calls < MaxCalls
    /\ call' = [call EXCEPT !.phase = "input", !.stream = <<>>, !.result = NoResult,
                            !.predicate = "", !.valid = FALSE, !.invoked = FALSE,
                            !.calls = @ + 1, !.previous = call.result, !.consumed = 0,
                            !.log = "none", !.threw = FALSE]
    /\ UNCHANGED <<agentName, run, task, fs, disk>>

NextCall == CallDriver \/ CallValidator \/ CallAgain

SpecCall == InitCall /\ [][NextCall]_vars

(********************* two tasks running concurrently *********************)
\* Two calls of runClaudePromptWithRetry are in progress in one process, each
\* with its own sourceDir argument, the two directories being distinct; their
\* steps interleave at every await.
Tasks == {1, 2}
Dirs == {"repoA", "repoB"}

\* a workspace as the version-control system holds it
NoWorkspace == [tree |-> {}, head |-> {}, commits |-> <<>>]
Workspace(s) == [tree |-> s.tree, head |-> s.head, commits |-> s.commits]

\* mutant: the directory is taken from state shared by the tasks (the
\* directory of task 1) instead of the sourceDir argument
WorkspaceDirShared(t) == task[1].sourceDir

\* the directory every operation of task t is given: its sourceDir argument
WorkspaceDir(t) == task[t].sourceDir

\* task t about to operate on the workspace in its directory
Load(t) ==
    LET w == fs[WorkspaceDir(t)]
    IN  [task[t] EXCEPT !.tree = w.tree, !.head = w.head, !.commits = w.commits]

\* of the operations of a task only the last is kept
Forget(s) ==
    [s EXCEPT !.ops = IF Len(@) = 0 THEN @ ELSE <<@[Len(@)]>>, !.audit = <<>>]

\* a step of task t leaves it and the workspace in its directory as in s
Put(t, s) ==
    /\ task' = [task EXCEPT ![t] = Forget(s)]
    /\ fs' = [fs EXCEPT ![WorkspaceDir(t)] = Workspace(s)]
    /\ UNCHANGED <<agentName, run, call, disk>>

\* the event streams and errors of the execution service in this specification
TwoStreams ==
    {s \in Streams :
        /\ Len(s) = 1
        /\ \/ s[1].type = "result" /\ s[1].text = Str(<<"done">>) /\ s[1].cost = 1
           \/ s[1].type = "error" /\ s[1].message \in TransientMessages}
TwoThrownErrors == {Error(m) : m \in TransientMessages}

\* the registered predicate applied to the directory it is given: the
\* deliverables are there if the workspace holds an edit
validator(t) == IF Load(t).tree # {} THEN "true" ELSE "false"

InitTwo ==
    /\ agentName = "mapped"
    /\ \E dir \in {f \in [Tasks -> Dirs] : f[1] # f[2]} :
          task = [t \in Tasks |-> [InitRun("none") EXCEPT !.task = t, !.sourceDir = dir[t]]]
    /\ fs = [d \in Dirs |-> NoWorkspace]
    /\ run = Idle /\ call = Idle /\ disk = Idle

TwoCheckpoint(t) ==
    /\ task[t].pc = "checkpoint"
    /\ Put(t, StepCheckpoint(Load(t)))

TwoStartAgent(t) ==
    /\ task[t].pc = "startAgent"
    /\ Put(t, StepStartAgent(Load(t)))

TwoDriver(t) ==
    /\ task[t].pc = "driver"
    /\ \E stream \in TwoStreams, edited \in BOOLEAN :
          Put(t, StepDriver(Load(t), stream, edited))

TwoDriverThrows(t) ==
    /\ task[t].pc = "driver"
    /\ \E e \in TwoThrownErrors, edited \in BOOLEAN :
          Put(t, StepDriverThrows(Load(t), e, edited))

TwoValidate(t) ==
    /\ task[t].pc = "validate"
    /\ Put(t, StepValidate(Load(t), validator(t)))

TwoEndAgentSuccess(t) ==
    /\ task[t].pc = "endSuccess"
    /\ Put(t, StepEndSuccess(Load(t)))

TwoCommitSuccess(t) ==
    /\ task[t].pc = "commit"
    /\ Put(t, StepCommit(Load(t)))

TwoEndAgentValidationFailure(t) ==
    /\ task[t].pc = "endValidationFailure"
    /\ Put(t, StepEndValidationFailure(Load(t)))

TwoRollbackValidationFailure(t) ==
    /\ task[t].pc = "rollbackValidation"
    /\ Put(t, StepRollbackValidation(Load(t)))

TwoCatchError(t) ==
    /\ task[t].pc = "catch"
    /\ Put(t, StepCatch(Load(t)))

TwoRollbackNonRetryable(t) ==
    /\ task[t].pc = "rollbackNonRetryable"
    /\ Put(t, StepRollbackNonRetryable(Load(t)))

TwoRollbackRetryable(t) ==
    /\ task[t].pc = "rollbackRetryable"
    /\ Put(t, StepRollbackRetryable(Load(t)))

TwoBackoffSleep(t) ==
    /\ task[t].pc = "sleep"
    /\ Put(t, StepSleep(Load(t)))

TwoRollbackFinalFailure(t) ==
    /\ task[t].pc = "rollbackFinal"
    /\ Put(t, StepRollbackFinal(Load(t)))

NextTwo ==
    \E t \in Tasks :
        \/ TwoCheckpoint(t)
        \/ TwoStartAgent(t)
        \/ TwoDriver(t)
        \/ TwoDriverThrows(t)
        \/ TwoValidate(t)
        \/ TwoEndAgentSuccess(t)
        \/ TwoCommitSuccess(t)
        \/ TwoEndAgentValidationFailure(t)
        \/ TwoRollbackValidationFailure(t)
        \/ TwoCatchError(t)
        \/ TwoRollbackNonRetryable(t)
        \/ TwoRollbackRetryable(t)
        \/ TwoBackoffSleep(t)
        \/ TwoRollbackFinalFailure(t)

SpecTwo == InitTwo /\ [][NextTwo]_vars

(************* saveDeliverableFile (src/unnamed/part_000) ******************)
\* most calls of saveDeliverableFile in one run
MaxSaves == 2

Filenames == {"a.md", "b.md"}
Contents == {"x", "y"}
NoFile == "(no file)"
NoPath == <<>>

\* path.join: a path is the sequence of its segments
join(path, name) == Append(path, name)
DeliverablesDir(targetDir) == join(<<targetDir>>, "deliverables")
Paths == {join(DeliverablesDir(d), f) : d \in Dirs, f \in Filenames}

\* what is found at a deliverables path: nothing, a directory, or a regular file
Kinds == {"absent", "dir", "file"}

\* mkdirSync(deliverablesDir, {recursive: true}) in target directory d: an
\* existing directory is left alone, a regular file in the way is EEXIST,
\* and the creation may be denied (EACCES)
mkdirSync(st, d, denied) ==
    CASE st.kinds[d] = "dir" -> [error |-> "", kinds |-> st.kinds]
      [] st.kinds[d] = "file" -> [error |-> "EEXIST", kinds |-> st.kinds]
      [] OTHER -> IF denied THEN [error |-> "EACCES", kinds |-> st.kinds]
                  ELSE [error |-> "", kinds |-> [st.kinds EXCEPT ![d] = "dir"]]

\* writeFileSync(filepath, content, 'utf8'): fails where there is no
\* directory to write into (ENOENT, ENOTDIR) and may be denied (EACCES)
writeFileSync(kinds, files, d, filepath, content, denied) ==
    CASE kinds[d] = "absent" -> [error |-> "ENOENT", files |-> files]
      [] kinds[d] = "file" -> [error |-> "ENOTDIR", files |-> files]
      [] OTHER -> IF denied THEN [error |-> "EACCES", files |-> files]
                  ELSE [error |-> "", files |-> [files EXCEPT ![filepath] = content]]

\* String.prototype.includes on the message of an operating-system error
IncludesEEXIST(errMsg) == errMsg = "EEXIST"

\* the outcome of a call: the path returned or the Error thrown
SaveReturned(path) == [kind |-> "returned", path |-> path, message |-> <<>>]
SaveThrew(what, errMsg) == [kind |-> "threw", path |-> NoPath, message |-> <<what, errMsg>>]

\* mutant: no directory is created before the write
saveDeliverableFileNoMkdir(st, targetDir, filename, content, denyMkdir, denyWrite) ==
    LET filepath == join(DeliverablesDir(targetDir), filename)
        wr == writeFileSync(st.kinds, st.files, targetDir, filepath, content, denyWrite)
    IN  [kinds |-> st.kinds, files |-> wr.files, mkdirError |-> "", writes |-> 1,
         writeError |-> wr.error,
         outcome |-> IF wr.error # "" THEN SaveThrew("Cannot write deliverable file", wr.error)
                     ELSE SaveReturned(filepath)]

\* mutant: every error of mkdirSync is passed over
saveDeliverableFileMkdirErrorIgnored(st, targetDir, filename, content, denyMkdir, denyWrite) ==
    LET filepath == join(DeliverablesDir(targetDir), filename)
        mk == mkdirSync(st, targetDir, denyMkdir)
        wr == writeFileSync(mk.kinds, st.files, targetDir, filepath, content, denyWrite)
    IN  [kinds |-> mk.kinds, files |-> wr.files, mkdirError |-> mk.error, writes |-> 1,
         writeError |-> wr.error,
         outcome |-> IF wr.error # "" THEN SaveThrew("Cannot write deliverable file", wr.error)
                     ELSE SaveReturned(filepath)]

\* saveDeliverableFile(targetDir, filename, content) on the file system st,
\* the operating system denying the mkdir or the write as told: the file
\* system it leaves, the errors met, the number of writeFileSync calls and
\* the outcome
saveDeliverableFile(st, targetDir, filename, content, denyMkdir, denyWrite) ==
    LET filepath == join(DeliverablesDir(targetDir), filename)
        mk == mkdirSync(st, targetDir, denyMkdir)
        wr == writeFileSync(mk.kinds, st.files, targetDir, filepath, content, denyWrite)
    IN  IF mk.error # "" /\ ~IncludesEEXIST(mk.error)
        THEN [kinds |-> mk.kinds, files |-> st.files, mkdirError |-> mk.error, writes |-> 0,
              writeError |-> "",
              outcome |-> SaveThrew("Cannot create deliverables directory", mk.error)]
        ELSE [kinds |-> mk.kinds, files |-> wr.files, mkdirError |-> mk.error, writes |-> 1,
              writeError |-> wr.error,
              outcome |-> IF wr.error # ""
                          THEN SaveThrew("Cannot write deliverable file", wr.error)
                          ELSE SaveReturned(filepath)]

InitSave ==
    /\ \E kinds \in [Dirs -> Kinds] :
          disk = [kinds |-> kinds, files |-> [q \in Paths |-> NoFile], calls |-> <<>>]
    /\ agentName = "null" /\ run = Idle /\ call = Idle /\ task = Idle /\ fs = Idle

\* one call of saveDeliverableFile, recorded with the file system before and after it
Save ==
    /\ Len(disk.calls) < MaxSaves
    /\ \E targetDir \in Dirs, filename \in Filenames, content \in Contents,
          denyMkdir \in BOOLEAN, denyWrite \in BOOLEAN :
          LET r == saveDeliverableFile(disk, targetDir, filename, content, denyMkdir, denyWrite)
          IN  disk' = [kinds |-> r.kinds, files |-> r.files,
                       calls |-> Append(disk.calls,
                           [targetDir |-> targetDir, filename |-> filename, content |-> content,
                            kindBefore |-> disk.kinds[targetDir], filesBefore |-> disk.files,
                            mkdirError |-> r.mkdirError, writeError |-> r.writeError,
                            writes |-> r.writes, outcome |-> r.outcome,
                            kindAfter |-> r.kinds[targetDir], filesAfter |-> r.files])]
    /\ UNCHANGED <<agentName, run, call, task, fs>>

NextSave == Save

SpecSave == InitSave /\ [][NextSave]_vars

(************** processMessageStream event by event, with its clock ********)
\* The loop of processMessageStream taken one event at a time: the clock
\* moves on by some time before each event arrives, and the heartbeat line is
\* printed when the loader is disabled and the interval has passed.
HEARTBEAT_INTERVAL == 30000

\* the time that can pass before the next event arrives, in milliseconds
Gaps == {0, HEARTBEAT_INTERVAL, HEARTBEAT_INTERVAL + 1}

\* mutant: the event that arrives when the heartbeat is due is passed over
LoopBodyHeartbeatSkips(st, message, now, lastHeartbeat, loaderDisabled) ==
    LET beats == loaderDisabled /\ now - lastHeartbeat > HEARTBEAT_INTERVAL
        turns == IF message.type = "assistant" THEN st.turnCount + 1 ELSE st.turnCount
        d == dispatchMessage(message)
        seen == [st EXCEPT !.turnCount = turns, !.consumed = @ + 1]
        after ==
            CASE d.type = "throw" -> [seen EXCEPT !.threw = TRUE, !.error = d.error]
              [] d.type = "complete" -> [seen EXCEPT !.result = d.result, !.cost = d.cost]
              [] OTHER -> IF d.apiErrorDetected THEN [seen EXCEPT !.apiErrorDetected = TRUE]
                          ELSE seen
    IN  [st |-> IF beats THEN [st EXCEPT !.consumed = @ + 1] ELSE after,
         left |-> ~beats /\ d.type \in {"throw", "complete"},
         beats |-> beats,
         turnShown |-> st.turnCount,
         lastHeartbeat |-> IF beats THEN now ELSE lastHeartbeat]

\* the body of the for await loop for one message arriving at time now
LoopBody(st, message, now, lastHeartbeat, loaderDisabled) ==
    LET beats == loaderDisabled /\ now - lastHeartbeat > HEARTBEAT_INTERVAL
        turns == IF message.type = "assistant" THEN st.turnCount + 1 ELSE st.turnCount
        d == dispatchMessage(message)
        seen == [st EXCEPT !.turnCount = turns, !.consumed = @ + 1]
        after ==
            CASE d.type = "throw" -> [seen EXCEPT !.threw = TRUE, !.error = d.error]
              [] d.type = "complete" -> [seen EXCEPT !.result = d.result, !.cost = d.cost]
              [] OTHER -> IF d.apiErrorDetected THEN [seen EXCEPT !.apiErrorDetected = TRUE]
                          ELSE seen
    IN  [st |-> after,                              \* the loop's variables after the body
         left |-> d.type \in {"throw", "complete"},  \* the loop left by throw or break
         beats |-> beats,                           \* the heartbeat line printed
         turnShown |-> st.turnCount,                \* the turn count it shows
         lastHeartbeat |-> IF beats THEN now ELSE lastHeartbeat]

InitBeat ==
    /\ agentName = "null"
    /\ \E stream \in Streams \cup TrailingStreams, loaderDisabled \in BOOLEAN :
          call = [phase |-> "loop", stream |-> stream, loaderDisabled |-> loaderDisabled,
                  now |-> 0, lastHeartbeat |-> 0, lines |-> <<>>, st |-> LoopStart]
    /\ run = Idle /\ task = Idle /\ fs = Idle /\ disk = Idle

\* for await (const message of query(...)) { ... }: the next message arrives
BeatEvent ==
    /\ call.phase = "loop"
    /\ call.st.consumed < Len(call.stream)
    /\ \E gap \in Gaps :
          LET now == call.now + gap
              b == LoopBody(call.st, call.stream[call.st.consumed + 1], now,
                            call.lastHeartbeat, call.loaderDisabled)
          IN  call' = [call EXCEPT !.phase = IF b.left THEN "left" ELSE "loop",
                                   !.now = now, !.lastHeartbeat = b.lastHeartbeat,
                                   !.lines = IF b.beats THEN Append(@, b.turnShown) ELSE @,
                                   !.st = b.st]
    /\ UNCHANGED <<agentName, run, task, fs, disk>>

\* the stream is exhausted, or the loop was left: `throw dispatchResult.error`
\* or `return { turnCount, result, apiErrorDetected, cost }`
BeatReturn ==
    /\ \/ call.phase = "left"
       \/ call.phase = "loop" /\ call.st.consumed = Len(call.stream)
    /\ call' = [call EXCEPT !.phase = IF call.st.threw THEN "threw" ELSE "returned"]
    /\ UNCHANGED <<agentName, run, task, fs, disk>>

NextBeat == BeatEvent \/ BeatReturn

SpecBeat == InitBeat /\ [][NextBeat]_vars

(***************************************************************************)
(*                              Properties                                 *)
(***************************************************************************)
\* positions in run c's trace of the operations named op
Idx(c, op) == {i \in 1..Len(run[c].ops) : run[c].ops[i].op = op}

\* positions of the operations named op performed in attempt n
IdxOf(c, op, n) == {i \in Idx(c, op) : run[c].ops[i].attempt = n}

\* the tree committed by the checkpoint of attempt n
CheckpointTrees(c, n) ==
    {run[c].commits[k].tree : k \in {k \in 1..Len(run[c].commits) :
        run[c].commits[k].label = "checkpoint" /\ run[c].commits[k].attempt = n}}

SuccessCommits(c) ==
    {k \in 1..Len(run[c].commits) : run[c].commits[k].label = "success"}

Done(c) == run[c].pc = "done"

\* C1: once an attempt's driver result is a success and validation passes,
\* no rollback, checkpoint-create or driver call follows; the call ends by
\* returning that attempt's result with exactly one success commit, made in
\* that attempt (and none before the commit step).
C1_ValidatedSuccessCommitsOnceAndReturns ==
    \A c \in Runs :
        \A i \in Idx(c, "validate") :
            run[c].ops[i].info = "passed" =>
                /\ \A j \in (i + 1)..Len(run[c].ops) :
                      run[c].ops[j].op \notin {"rollback", "checkpoint", "driver", "sleep"}
                /\ run[c].pc \in {"endSuccess", "commit", "done"}
                /\ run[c].attempt = run[c].ops[i].attempt
                /\ run[c].pc # "done" => SuccessCommits(c) = {}
                /\ run[c].pc = "done" =>
                      /\ run[c].outcome.kind = "returned"
                      /\ run[c].outcome.result.success
                      /\ run[c].outcome.result.id = run[c].ops[i].attempt
                      /\ Cardinality(SuccessCommits(c)) = 1
                      /\ Cardinality(Idx(c, "commit")) = 1
                      /\ run[c].ops[Len(run[c].ops)].op = "commit"

\* a task that returned the validated result of its second attempt, after
\* the first attempt was rolled back
C1_Witness ==
    /\ Done("ok")
    /\ run["ok"].outcome.kind = "returned"
    /\ run["ok"].outcome.result.id = 2
    /\ Idx("ok", "rollback") # {}
    /\ Cardinality(SuccessCommits("ok")) = 1

\* C2: every driver call of attempt n comes after exactly one completed
\* checkpoint-create of attempt n, and a checkpoint-create lies between any
\* two driver calls.
C2_CheckpointBeforeEveryDriverCall ==
    \A c \in Runs :
        \A i \in Idx(c, "driver") :
            LET n == run[c].ops[i].attempt
                before == {j \in IdxOf(c, "checkpoint", n) : j < i}
            IN  /\ n \in 1..maxRetries
                /\ Cardinality(before) = 1
                /\ Cardinality(CheckpointTrees(c, n)) = 1
                /\ \A j \in before :
                      /\ \A k \in (j + 1)..(i - 1) : run[c].ops[k].op # "driver"
                      \* the checkpoint is the snapshot the attempt starts from
                      /\ run[c].ops[j].after = run[c].ops[i].before
                      /\ CheckpointTrees(c, n) = {run[c].ops[i].before}

\* all three attempts were executed
C2_Witness ==
    /\ Done("ok")
    /\ \A n \in 1..maxRetries : IdxOf("ok", "driver", n) # {}

\* the driver call at position i ended the attempt without a success: with a
\* failure result or with a thrown error
ExecutionFailed(c, i) == run[c].ops[i].op = "driver" /\ run[c].ops[i].info # "success"

\* the same, the error being fatal (not retryable)
ExecutionFailedFatally(c, i) ==
    run[c].ops[i].op = "driver" /\ run[c].ops[i].info \in {"failure-fatal", "throw-fatal"}

\* C3: if attempt n < maxRetries fails in execution, attempt n+1 begins from
\* the tree of checkpoint n, which holds none of attempt n's edits, and
\* checkpoint n+1 holds none of them either.
C3_ExecutionFailureRolledBackBeforeNextAttempt ==
    \A c \in Runs :
        \A i \in Idx(c, "driver") :
            LET n == run[c].ops[i].attempt
            IN  (ExecutionFailed(c, i) /\ n < maxRetries) =>
                    /\ \A j \in IdxOf(c, "driver", n + 1) :
                          /\ run[c].ops[j].before \in CheckpointTrees(c, n)
                          /\ n \notin run[c].ops[j].before
                    /\ \A t \in CheckpointTrees(c, n + 1) : n \notin t

\* C4: if a non-final attempt returns a success that fails validation, then
\* once the supervisor has handled it the workspace has been rolled back, once,
\* to the tree of the checkpoint taken before that attempt, and the next
\* attempt starts from that tree.
C4_ValidationFailureRolledBackToCheckpoint ==
    \A c \in Runs :
        \A i \in Idx(c, "validate") :
            LET n == run[c].ops[i].attempt
                rollbacks == {j \in IdxOf(c, "rollback", n) : j > i}
            IN  (run[c].ops[i].info = "failed" /\ n < maxRetries) =>
                    /\ run[c].attempt > n =>
                          /\ Cardinality(rollbacks) = 1
                          /\ \A j \in rollbacks : run[c].ops[j].after \in CheckpointTrees(c, n)
                    /\ (run[c].attempt = n + 1 /\ run[c].pc = "checkpoint") =>
                          run[c].tree \in CheckpointTrees(c, n)
                    /\ \A j \in IdxOf(c, "driver", n + 1) :
                          run[c].ops[j].before \in CheckpointTrees(c, n)

\* attempt 1 edited the workspace and failed validation; the rollback
\* discarded the edit and attempt 2 was executed
C4_Witness ==
    /\ \E i \in IdxOf("ok", "validate", 1) : run["ok"].ops[i].info = "failed"
    /\ \E j \in IdxOf("ok", "rollback", 1) : run["ok"].ops[j].before # run["ok"].ops[j].after
    /\ IdxOf("ok", "driver", 2) # {}

\* C5: if all maxRetries attempts fail, the call raises a non-null error and
\* the workspace is then rolled back to the last checkpoint, with no agent edit
\* left in it.
C5_AllAttemptsFailedRaisesErrorRolledBack ==
    \A c \in Runs :
        (/\ Done(c)
         /\ run[c].outcome.kind = "threw"
         /\ IdxOf(c, "driver", maxRetries) # {}) =>
            /\ run[c].outcome.error # Undefined
            /\ run[c].tree \in CheckpointTrees(c, maxRetries)
            /\ run[c].tree \cap (1..maxRetries) = {}

\* C6: if the execution of attempt n fails with a fatal error, no later
\* attempt is checkpointed or executed, and the call ends by raising an error
\* after exactly one rollback for attempt n, n checkpoints having been created.
C6_FatalExecutionErrorAbortsImmediately ==
    \A c \in Runs :
        \A i \in Idx(c, "driver") :
            LET n == run[c].ops[i].attempt
            IN  ExecutionFailedFatally(c, i) =>
                    /\ run[c].attempt = n
                    /\ \A m \in (n + 1)..maxRetries :
                          IdxOf(c, "driver", m) = {} /\ IdxOf(c, "checkpoint", m) = {}
                    /\ Done(c) =>
                          /\ run[c].outcome.kind = "threw"
                          /\ run[c].outcome.error # Undefined
                          /\ Cardinality(IdxOf(c, "rollback", n)) = 1
                          /\ Cardinality(Idx(c, "checkpoint")) = n

\* C7: whenever the call raises an error, a rollback has completed after the
\* last driver execution, and the workspace holds no uncommitted edit.
C7_RollbackBeforeEveryRaise ==
    \A c \in Runs :
        (Done(c) /\ run[c].outcome.kind = "threw") =>
            /\ \E r \in Idx(c, "rollback") : \A d \in Idx(c, "driver") : d < r
            /\ run[c].tree = run[c].head

IsAuditCall(e) == e.op \in {"startAgent", "endAgent"}

\* the startAgent and endAgent calls of run c, in order
AuditCalls(c) == SelectSeq(run[c].ops, IsAuditCall)

\* C8: startAgent and endAgent calls strictly alternate, each endAgent closing
\* the attempt the preceding startAgent opened, and every attempt that was
\* started and is over has exactly one endAgent.
C8_EveryStartedAttemptEndedExactlyOnce ==
    \A c \in Runs :
        LET a == AuditCalls(c)
        IN  /\ \A k \in 1..Len(a) :
                  IF k % 2 = 1 THEN a[k].op = "startAgent"
                  ELSE a[k].op = "endAgent" /\ a[k].attempt = a[k - 1].attempt
            /\ \A n \in 1..maxRetries :
                  (IdxOf(c, "startAgent", n) # {} /\ (Done(c) \/ run[c].attempt > n)) =>
                      Cardinality(IdxOf(c, "endAgent", n)) = 1

IsControl(e) == ~IsAuditCall(e)

\* what a run did and how it stands, its audit calls and records left out
Control(c) ==
    [ops |-> SelectSeq(run[c].ops, IsControl), pc |-> run[c].pc, attempt |-> run[c].attempt,
     outcome |-> run[c].outcome, lastError |-> run[c].lastError,
     retryContext |-> run[c].retryContext, result |-> run[c].result,
     tree |-> run[c].tree, head |-> run[c].head, commits |-> run[c].commits]

IsEndRecord(rec) == rec.kind = "end"

\* scenario B: attempt 1 succeeds and fails validation, attempt 2 succeeds and validates
ScenarioB(c) ==
    /\ Done(c)
    /\ \E i \in IdxOf(c, "driver", 1) : run[c].ops[i].info = "success"
    /\ \E i \in IdxOf(c, "validate", 1) : run[c].ops[i].info = "failed"
    /\ \E i \in IdxOf(c, "driver", 2) : run[c].ops[i].info = "success"
    /\ \E i \in IdxOf(c, "validate", 2) : run[c].ops[i].info = "passed"

\* C10: (audit session wired, sink working) if attempt 1 succeeds but fails
\* validation and attempt 2 succeeds and validates, the call returns attempt
\* 2's result and the audit trail holds exactly two end records: attempt 1's,
\* a failure with the validation-failed reason, then attempt 2's, a success.
C10_SecondAttemptResultAndTwoEndRecords ==
    (agentName # "null" /\ ScenarioB("ok")) =>
        LET ends == SelectSeq(run["ok"].audit, IsEndRecord)
        IN  /\ run["ok"].outcome.kind = "returned"
            /\ run["ok"].outcome.result.id = 2
            /\ Len(ends) = 2
            /\ ends[1].attemptNumber = 1 /\ ~ends[1].success
            /\ ends[1].error = "Output validation failed"
            /\ ends[2].attemptNumber = 2 /\ ends[2].success

C10_Witness == agentName = "mapped" /\ ScenarioB("ok")

\* the validation of the last attempt failed in run c
FinalValidationFailed(c) ==
    \E i \in IdxOf(c, "validate", maxRetries) : run[c].ops[i].info = "failed"

\* the error thrown for a validation failure on the last attempt
ValidationError(c) ==
    PentestError("failed output validation", "validation", FALSE,
                 [description |-> run[c].description, sourceDir |-> run[c].sourceDir,
                  attemptsExhausted |-> maxRetries])

\* C11: when the validation of attempt maxRetries fails, nothing is retried
\* (no checkpoint, driver call or backoff follows the validation) and the call
\* ends by raising exactly the validation error: a PentestError of type
\* "validation", not retryable, carrying the task description, the workspace
\* path and attemptsExhausted = maxRetries; the last operation before the raise
\* is the rollback, which leaves the workspace at the checkpoint.
C11_FinalValidationFailureRaisesValidationError ==
    \A c \in Runs :
        FinalValidationFailed(c) =>
            LET i == CHOOSE i \in IdxOf(c, "validate", maxRetries) : TRUE
                ops == run[c].ops
            IN  /\ \A j \in (i + 1)..Len(ops) : ops[j].op \notin {"checkpoint", "driver", "sleep", "validate"}
                /\ run[c].attempt = maxRetries
                /\ run[c].pc \in {"endValidationFailure", "catch", "rollbackNonRetryable", "done"}
                /\ Done(c) =>
                      /\ run[c].outcome = Threw(ValidationError(c))
                      /\ run[c].outcome.error.type = "validation"
                      /\ ~run[c].outcome.error.retryable
                      /\ run[c].outcome.error.context.attemptsExhausted = maxRetries
                      /\ run[c].outcome.error.context.sourceDir = run[c].sourceDir
                      /\ run[c].outcome.error.context.description = run[c].description
                      /\ ops[Len(ops)].op = "rollback"
                      /\ Cardinality({j \in (i + 1)..Len(ops) : ops[j].op = "rollback"}) = 1
                      /\ run[c].tree = run[c].head
                      /\ maxRetries \notin run[c].tree

C11_Witness ==
    /\ Done("ok") /\ FinalValidationFailed("ok")
    /\ \E i \in IdxOf("ok", "driver", maxRetries) : run["ok"].ops[i].after # run["ok"].ops[i].before

\* positions in run c's trace of the version-control operations that failed
VcsFailures(c) ==
    {i \in 1..Len(run[c].ops) : run[c].ops[i].op \in VcsOps /\ run[c].ops[i].info = "failed"}

Turns(stream) == Cardinality({i \in 1..Len(stream) : stream[i].type = "assistant"})

\* the events of a stream that processMessageStream gets to see: those up to
\* the first result or error event
Terminals(stream) == {i \in 1..Len(stream) : stream[i].type \in {"result", "error"}}
FirstTerminal(stream) == CHOOSE i \in Terminals(stream) : \A j \in Terminals(stream) : i <= j
Seen(stream) ==
    IF Terminals(stream) = {} THEN stream ELSE SubSeq(stream, 1, FirstTerminal(stream))

\* the words that hold a billing keyword, the case of letters left aside
TriggerWords == {"Limit", "SPENDING", "escape", "Budget", "resets"}

SaysBilling(r) == \E t \in r : \E i \in 1..Len(t) : t[i] \in TriggerWords

IsBillingFailure(r) == ~r.success /\ r.error = "Spending cap likely reached"

\* C13: (runClaudePrompt on its own, the stream not ended by an error event)
\* the result is the billing failure if and only if the stream has at most 2
\* assistant turns, its cost is 0 and its text holds one of the keywords in
\* any case of letters; the billing failure is not a success and is
\* retryable; in every other case, in particular with cost > 0 or more than
\* 2 turns and a text holding "limit", the result is a success carrying the
\* text, the cost and the turn count.
C13_BillingHeuristicExactlyWhenCheapShortAndKeyword ==
    call.phase \in {"driven", "validated"} =>
        LET stream == Seen(call.stream)
            r == call.result
            last == stream[Len(stream)]
            ended == Len(stream) > 0 /\ last.type = "result"
            text == IF ended THEN last.text ELSE Null
            cost == IF ended THEN last.cost ELSE 0
            trigger == Turns(stream) <= 2 /\ cost = 0 /\ SaysBilling(text)
        IN  IF Len(stream) > 0 /\ last.type = "error"
            THEN ~r.success /\ ~IsBillingFailure(r)
            ELSE /\ trigger <=> IsBillingFailure(r)
                 /\ trigger => r.retryable /\ r.errorType = "PentestError"
                 /\ ~trigger => /\ r.success
                                /\ r.result = text /\ r.cost = cost
                                /\ r.turns = Turns(stream)

C13_Witness ==
    /\ call.phase = "driven"
    /\ Turns(call.stream) = 2
    /\ call.stream[Len(call.stream)].type = "result"
    /\ call.stream[Len(call.stream)].text = Str(<<"done", "SPENDING">>)
    /\ call.stream[Len(call.stream)].cost = 0
    /\ IsBillingFailure(call.result) /\ call.result.retryable

\* C14: (validateAgentOutput on its own) it returns false, without invoking
\* any predicate, when the result's success flag is false or its text is null
\* or empty; otherwise it returns true, invoking nothing, when no validator
\* is registered for the agent name (a null name included); otherwise it
\* invokes the registered predicate and returns exactly the boolean the
\* predicate returns.
C14_ValidatorFailsClosedElsePredicate ==
    call.phase = "validated" =>
        LET r == call.result
        IN  IF ~r.success \/ r.result = Null \/ r.result = Str(<<>>)
            THEN ~call.valid /\ ~call.invoked
            ELSE IF agentName \in {"null", "unmapped"}
            THEN call.valid /\ ~call.invoked
            ELSE /\ call.invoked
                 /\ call.predicate = "true" => call.valid
                 /\ call.predicate = "false" => ~call.valid

C14_Witness ==
    /\ call.phase = "validated"
    /\ call.result.success /\ call.result.result = Str(<<"done">>)
    /\ agentName = "mapped" /\ call.predicate = "true" /\ call.valid /\ call.invoked

\* C15: an exception of the registered predicate is caught inside
\* validateAgentOutput, which returns false: the validation of that attempt is
\* recorded as failed and the attempt is handled as a validation failure. On
\* a non-final attempt the workspace is rolled back once ('validation
\* failure'), without backoff, and the next attempt starts from the
\* checkpoint; on the final attempt the call raises the validation error.
\* The exception itself never reaches runClaudePromptWithRetry.
C15_PredicateExceptionIsValidationFailure ==
    \A c \in Runs : \A i \in Idx(c, "validatorCatch") :
        LET ops == run[c].ops
            n == ops[i].attempt
        IN  /\ i < Len(ops)
            /\ ops[i + 1].op = "validate" /\ ops[i + 1].info = "failed" /\ ops[i + 1].attempt = n
            /\ run[c].err.message # "validator" /\ run[c].lastError.message # "validator"
            /\ run[c].outcome.error.message # "validator"
            /\ (n < maxRetries /\ run[c].attempt > n) =>
                  /\ Cardinality(IdxOf(c, "rollback", n)) = 1
                  /\ \A j \in IdxOf(c, "rollback", n) :
                        ops[j].info = "validation failure" /\ j > i /\ n \notin ops[j].after
                  /\ IdxOf(c, "sleep", n) = {}
            /\ (n = maxRetries) =>
                  /\ run[c].pc \in {"endValidationFailure", "catch", "rollbackNonRetryable", "done"}
                  /\ Done(c) => run[c].outcome = Threw(ValidationError(c))

C15_Witness ==
    /\ Done("ok")
    /\ IdxOf("ok", "validatorCatch", 1) # {}
    /\ IdxOf("ok", "validatorCatch", maxRetries) # {}

\* the call never goes beyond attempt maxRetries
AttemptsBounded(c) ==
    /\ run[c].attempt \in 1..maxRetries
    /\ \A i \in 1..Len(run[c].ops) : run[c].ops[i].attempt \in 1..maxRetries
    /\ \A n \in 1..maxRetries : Cardinality(IdxOf(c, "driver", n)) <= 1

\* C16: the call never goes beyond attempt maxRetries and ends in one of
\* three ways, always with a result or an error: it returns the successful
\* result of an attempt whose validation passed, or it raises a fatal (not
\* retryable) error, or it raises an error after attempt maxRetries was
\* executed.
C16_EndsWithValidatedResultOrError ==
    \A c \in Runs :
        /\ AttemptsBounded(c)
        /\ Done(c) =>
              LET o == run[c].outcome
              IN  \/ /\ o.kind = "returned"
                     /\ o.result.success
                     /\ \E i \in IdxOf(c, "validate", o.result.id) : run[c].ops[i].info = "passed"
                  \/ /\ o.kind = "threw"
                     /\ o.error # Undefined
                     /\ \/ ~isRetryableError(o.error)
                        \/ IdxOf(c, "driver", maxRetries) # {}

\* the edits task t's agent can make, and the edits a workspace holds
\* anywhere: in its tree, in its HEAD commit or in an earlier commit
OwnEdits(t) == {maxRetries * (t - 1) + n : n \in 1..maxRetries}
EditsIn(w) == w.tree \cup w.head \cup UNION {w.commits[k].tree : k \in 1..Len(w.commits)}

\* C17: (two tasks running concurrently, their workspace directories
\* distinct) under every interleaving the workspace in a task's directory is
\* exactly as that task's own operations left it, and its tree, its HEAD and
\* all its commits hold edits of that task only: no checkpoint, commit,
\* rollback or driver call of the other task has touched it; and a validation
\* passes only on deliverables in the task's own directory.
C17_TasksTouchOnlyTheirOwnWorkspace ==
    \A t \in Tasks :
        LET w == fs[task[t].sourceDir]
        IN  /\ w = Workspace(task[t])
            /\ EditsIn(w) \subseteq OwnEdits(t)
            /\ task[t].pc \in {"endSuccess", "commit"} => w.tree \cap OwnEdits(t) # {}

\* task 1 has just rolled back an edit while task 2, in mid-attempt, holds an
\* edit that is not committed
C17_Witness ==
    /\ task[1].sourceDir # task[2].sourceDir
    /\ Len(task[1].ops) = 1
    /\ task[1].ops[1].op = "rollback" /\ task[1].ops[1].before # task[1].ops[1].after
    /\ task[2].pc = "validate"
    /\ fs[task[2].sourceDir].tree # fs[task[2].sourceDir].head
    /\ fs[task[1].sourceDir].commits # <<>>

\* a call the operating system let through
Unhindered(k) ==
    /\ disk.calls[k].kindBefore \in {"absent", "dir"}
    /\ disk.calls[k].mkdirError = "" /\ disk.calls[k].writeError = ""

SameArguments(j, k) ==
    /\ disk.calls[j].targetDir = disk.calls[k].targetDir
    /\ disk.calls[j].filename = disk.calls[k].filename
    /\ disk.calls[j].content = disk.calls[k].content

\* C18: (no operating-system error) saveDeliverableFile succeeds whether the
\* deliverables directory was there or not: the directory is there afterwards,
\* writeFileSync is called exactly once, the file at
\* <targetDir>/deliverables/<filename> holds the content, no other file is
\* changed and that path is returned; a second call with the same arguments
\* returns the same path and leaves the files as the first left them.
C18_SaveWritesOnceReturnsPathIdempotent ==
    \A k \in 1..Len(disk.calls) :
        LET c == disk.calls[k]
            path == <<c.targetDir, "deliverables", c.filename>>
        IN  /\ (c.kindBefore \in {"absent", "dir"} /\ c.mkdirError \notin {"EACCES"}
                 /\ c.writeError \notin {"EACCES"}) => Unhindered(k)
            /\ Unhindered(k) =>
                  /\ c.outcome = SaveReturned(path)
                  /\ c.writes = 1
                  /\ c.kindAfter = "dir"
                  /\ c.filesAfter[path] = c.content
                  /\ \A q \in Paths \ {path} : c.filesAfter[q] = c.filesBefore[q]
                  /\ \A j \in 1..(k - 1) :
                        (j = k - 1 /\ Unhindered(j) /\ SameArguments(j, k)) =>
                            /\ c.outcome.path = disk.calls[j].outcome.path
                            /\ c.filesAfter = disk.calls[j].filesAfter

C18_Witness ==
    /\ Len(disk.calls) = 2
    /\ Unhindered(1) /\ Unhindered(2) /\ SameArguments(1, 2)
    /\ disk.calls[1].kindBefore = "absent" /\ disk.calls[2].kindBefore = "dir"

\* C19: when mkdirSync fails with an error other than EEXIST the call throws
\* "Cannot create deliverables directory" naming that error and writeFileSync
\* is not called; when writeFileSync fails the call throws "Cannot write
\* deliverable file" naming that error; a call that throws returns no path
\* and leaves the files as they were; a path is returned only by a call whose
\* one writeFileSync succeeded.
C19_SaveErrorsNameCauseAndReturnNoPath ==
    \A k \in 1..Len(disk.calls) :
        LET c == disk.calls[k]
        IN  /\ (c.mkdirError \notin {"", "EEXIST"}) =>
                  /\ c.outcome = SaveThrew("Cannot create deliverables directory", c.mkdirError)
                  /\ c.writes = 0
            /\ (c.writeError # "") =>
                  /\ c.outcome = SaveThrew("Cannot write deliverable file", c.writeError)
                  /\ c.writes = 1
            /\ (c.outcome.kind = "threw") =>
                  /\ c.outcome.path = NoPath
                  /\ c.filesAfter = c.filesBefore
                  /\ c.mkdirError \notin {"", "EEXIST"} \/ c.writeError # ""
            /\ (c.outcome.kind = "returned") =>
                  /\ c.writes = 1 /\ c.writeError = ""
                  /\ c.filesAfter[c.outcome.path] = c.content

C19_Witness ==
    /\ Len(disk.calls) = 2
    /\ disk.calls[1].mkdirError = "EACCES" /\ disk.calls[1].outcome.kind = "threw"
    /\ disk.calls[2].writeError = "EACCES" /\ disk.calls[2].outcome.kind = "threw"

\* C20: every audit-end record of an attempt is written after that attempt's
\* commit or rollback: a commitGitSuccess of the attempt precedes its
\* endAgent(success), and a rollbackGitWorkspace of the attempt precedes its
\* endAgent(failure).
C20_CommitOrRollbackBeforeAuditEnd ==
    \A c \in Runs : \A i \in Idx(c, "endAgent") :
        LET n == run[c].ops[i].attempt
        IN  IF run[c].ops[i].info = "success"
            THEN \E j \in IdxOf(c, "commit", n) : j < i
            ELSE \E j \in IdxOf(c, "rollback", n) : j < i

\* the execution of position i failed with a retryable error
ExecutionFailedRetryably(c, i) ==
    run[c].ops[i].op = "driver" /\ run[c].ops[i].info \in {"failure-retryable", "throw-retryable"}

\* C21: when the execution of attempt n < maxRetries fails with a retryable
\* error (the billing error of the driver included) and attempt n+1 has
\* started, then between the execution and the checkpoint of attempt n+1
\* there are, in this order, one rollback of attempt n and exactly one
\* backoff sleep of attempt n.
C21_RollbackThenOneBackoffBeforeNextAttempt ==
    \A c \in Runs : \A i \in Idx(c, "driver") :
        LET n == run[c].ops[i].attempt
        IN  (ExecutionFailedRetryably(c, i) /\ n < maxRetries /\ IdxOf(c, "checkpoint", n + 1) # {}) =>
                /\ Cardinality(IdxOf(c, "sleep", n)) = 1
                /\ \E j \in IdxOf(c, "rollback", n), k \in IdxOf(c, "sleep", n),
                      l \in IdxOf(c, "checkpoint", n + 1) : i < j /\ j < k /\ k < l

\* the attempts of run c in which lastError was assigned: those whose
\* execution threw (catch block) and those whose validation failed
LastErrorAssigned(c) ==
    {run[c].ops[i].attempt : i \in {i \in 1..Len(run[c].ops) :
        \/ run[c].ops[i].op = "driver" /\ run[c].ops[i].info \in {"throw-retryable", "throw-fatal"}
        \/ run[c].ops[i].op = "validate" /\ run[c].ops[i].info = "failed"}}

\* C22: when the call has ended after attempt maxRetries failed in execution
\* with a retryable error, it has raised an error that is not undefined and
\* that is the error of attempt maxRetries: the last assignment of lastError
\* was made in that attempt.
C22_RaisedErrorIsThatOfFinalAttempt ==
    \A c \in Runs :
        (Done(c) /\ \E i \in IdxOf(c, "driver", maxRetries) : ExecutionFailedRetryably(c, i)) =>
            /\ run[c].outcome.kind = "threw"
            /\ run[c].outcome.error # Undefined
            /\ run[c].outcome.error = run[c].lastError
            /\ maxRetries \in LastErrorAssigned(c)

\* the validation of run c's current attempt has failed on a driver result
\* that carries apiErrorDetected
ApiErrorValidationFailure(c) ==
    /\ run[c].result.success /\ run[c].result.apiErrorDetected
    /\ \E i \in IdxOf(c, "validate", run[c].attempt) : run[c].ops[i].info = "failed"

\* C23: when validation fails on a driver result that carries
\* apiErrorDetected, on any attempt, the result is not returned, the failure
\* is treated as retryable (it never takes the fatal path) and the reason
\* held for it, and raised if the call ends with it, is the one naming the API
\* error with the validation failure.
C23_ApiErrorValidationFailureIsRetryableAndNamed ==
    \A c \in Runs :
        ApiErrorValidationFailure(c) =>
            /\ run[c].outcome.kind # "returned"
            /\ run[c].pc # "endValidationFailure" =>
                  run[c].lastError.message = "API Error: terminated with validation failure"
            /\ run[c].pc # "rollbackNonRetryable"
            /\ Done(c) =>
                  run[c].outcome.error.message = "API Error: terminated with validation failure"

\* the positions of an attempt up to the call of the driver
BeforeExecution == {"checkpoint", "startAgent", "driver"}

\* C24: the context the driver of attempt 1 is given is the original one
\* (<<>>: no partial results); the context handed on when attempt n ends in
\* a retryable exception is the original plus attempt n's partial results if
\* the exception carries any, and the original if it carries none; and the
\* context the driver of attempt n > 1 is given holds no partial results of
\* an attempt before n - 1, and none at all if attempt n - 1 did not end in a
\* retryable exception.
C24_RetryContextIsOriginalPlusPreviousAttemptOnly ==
    \A c \in Runs :
        LET n == run[c].attempt
            rc == run[c].retryContext
        IN  /\ (run[c].pc \in BeforeExecution /\ n = 1) => rc = <<>>
            /\ run[c].pc = "sleep" =>
                  rc = IF run[c].err.partialResults THEN <<n>> ELSE <<>>
            /\ (run[c].pc \in BeforeExecution /\ n > 1) =>
                  /\ rc \in {<<>>, <<n - 1>>}
                  /\ (\A i \in IdxOf(c, "driver", n - 1) : run[c].ops[i].info # "throw-retryable")
                        => rc = <<>>

IsStartRecord(rec) == rec.kind = "start"

\* C25: at every point the retry context is the original context plus at
\* most one partial-results summary, and so is every prompt context recorded
\* at the start of an attempt: an augmentation replaces the one before it.
C25_RetryContextHoldsAtMostOneSummary ==
    \A c \in Runs :
        /\ Len(run[c].retryContext) <= 1
        /\ \A k \in 1..Len(run[c].audit) :
              IsStartRecord(run[c].audit[k]) => Len(run[c].audit[k].prompt) <= 1

\* attempt 2 was started with attempt 1's partial results in its context and
\* has handed on its own
C25_Witness ==
    /\ run["ok"].pc = "sleep" /\ run["ok"].attempt = 2
    /\ run["ok"].err.partialResults
    /\ run["ok"].retryContext = <<2>>
    /\ \E k \in 1..Len(run["ok"].audit) :
          /\ IsStartRecord(run["ok"].audit[k])
          /\ run["ok"].audit[k].attemptNumber = 2
          /\ run["ok"].audit[k].prompt = <<1>>

\* C26: (calls of runClaudePrompt one after another) the turn count and the
\* cost of a call's result are those of the call's own stream, whatever the
\* call before it counted: a success carries the number of assistant turns of
\* its stream and the cost of its result event (0 turns and cost 0 for a
\* stream with none), and a failure result carries cost 0.
C26_CountersAreThoseOfOwnStream ==
    call.phase \in {"driven", "validated"} =>
        LET stream == Seen(call.stream)
            r == call.result
            last == stream[Len(stream)]
            ended == Len(stream) > 0 /\ last.type = "result"
        IN  /\ r.success => /\ r.turns = Turns(stream)
                            /\ r.cost = IF ended THEN last.cost ELSE 0
                            /\ r.partialCost = r.cost
            /\ ~r.success => r.cost = 0 /\ r.turns = 0

\* the second call succeeds after a first that counted turns and cost
C26_Witness ==
    /\ call.phase = "driven" /\ call.calls = 2
    /\ call.previous.success /\ call.previous.turns >= 2 /\ call.previous.cost = 1
    /\ call.result.success /\ call.result.turns = 1 /\ call.result.cost = 1

\* C27: (runClaudePrompt on its own, a result event in the stream with no
\* error event before it) the events taken from the stream are those up to the
\* first result event and no more; a success carries the number of assistant
\* events among them and the text and the cost of that result event; and the
\* result is the one the stream cut after that event gives, whatever follows.
C27_FirstResultEventEndsTheStream ==
    call.phase \in {"driven", "validated"} =>
        LET stream == call.stream
            r == call.result
            results == {i \in 1..Len(stream) : stream[i].type = "result"}
        IN  \A k \in results :
                (\A j \in 1..(k - 1) : stream[j].type \notin {"result", "error"}) =>
                    /\ call.consumed = k
                    /\ r.success =>
                          /\ r.turns = Cardinality({j \in 1..k : stream[j].type = "assistant"})
                          /\ r.result = stream[k].text
                          /\ r.cost = stream[k].cost
                    /\ r = runClaudePrompt(SubSeq(stream, 1, k))

\* a success on a stream with an assistant event after its result event
C27_Witness ==
    /\ call.phase = "driven"
    /\ Len(call.stream) = 3
    /\ call.stream[1].type = "assistant"
    /\ call.stream[2].type = "result" /\ call.stream[2].cost = 1
    /\ call.stream[3].type = "assistant"
    /\ call.consumed = 2
    /\ call.result.success /\ call.result.turns = 1 /\ call.result.cost = 1

\* an in-band API error signal among the events seen, and a result event after it
Signalled(stream) == \E i \in 1..Len(stream) : stream[i].apiError
EndedByResult(stream) == Len(stream) > 0 /\ stream[Len(stream)].type = "result"

\* the billing safeguard of runClaudePrompt trips on the events seen
SafeguardTrips(stream) ==
    /\ EndedByResult(stream)
    /\ Turns(stream) <= 2
    /\ stream[Len(stream)].cost = 0
    /\ SaysBilling(stream[Len(stream)].text)

\* C28 as stated: (runClaudePrompt on its own) whenever an in-band API error
\* signal is seen and a result event arrives after it, the result is a success
\* with apiErrorDetected = true; a success has apiErrorDetected = false when
\* no signal was seen.
C28_SignalThenResultIsSuccessWithFlag ==
    call.phase \in {"driven", "validated"} =>
        LET stream == Seen(call.stream)
            r == call.result
        IN  /\ Signalled(stream) /\ EndedByResult(stream) =>
                r.success /\ r.apiErrorDetected
            /\ r.success /\ ~Signalled(stream) => ~r.apiErrorDetected

\* C28: (runClaudePrompt on its own) when an in-band API error signal is seen
\* and a result event arrives after it, the result is a success with
\* apiErrorDetected = true, whatever events lie between the signal and the
\* result event, unless the billing safeguard trips (at most 2 turns, cost 0,
\* a keyword in the text), and then it is the retryable billing failure; a
\* success has apiErrorDetected = false when no signal was seen.
C28_SignalThenResultIsSuccessWithFlagUnlessSafeguard ==
    call.phase \in {"driven", "validated"} =>
        LET stream == Seen(call.stream)
            r == call.result
        IN  /\ Signalled(stream) /\ EndedByResult(stream) =>
                IF SafeguardTrips(stream)
                THEN IsBillingFailure(r) /\ r.retryable
                ELSE r.success /\ r.apiErrorDetected
            /\ r.success /\ ~Signalled(stream) => ~r.apiErrorDetected

\* a success whose signal was followed by other events before the result event
C28_Witness ==
    /\ call.phase = "driven"
    /\ Len(call.stream) = 4
    /\ call.stream[1].type = "assistant" /\ call.stream[1].apiError
    /\ call.stream[2].type = "assistant" /\ ~call.stream[2].apiError
    /\ call.stream[3].type = "tool"
    /\ call.stream[4].type = "result"
    /\ call.result.success /\ call.result.apiErrorDetected

\* how many times attempt n of run c performed op, and how many times it has
\* to have by now: once when the attempt is past the step named by the
\* positions in notYet
Times(c, op, n) == Cardinality(IdxOf(c, op, n))
Due(c, n, notYet) == IF n < run[c].attempt \/ run[c].pc \notin notYet THEN 1 ELSE 0

\* C29: the attempts of a call are numbered 1, 2, ... up to maxRetries without
\* a gap; each takes its checkpoint once, records its start once (an audit
\* session given) and calls the driver once, in that order and with its own
\* number, so the driver is called at most maxRetries times; and nothing of
\* an attempt is done after the next attempt has begun.
C29_OneDriverCallPerAttemptInSequence ==
    \A c \in Runs :
        LET ops == run[c].ops
        IN  /\ run[c].attempt \in 1..maxRetries
            /\ \A i \in 1..Len(ops) : ops[i].attempt \in 1..run[c].attempt
            /\ \A i, j \in 1..Len(ops) : i < j => ops[i].attempt <= ops[j].attempt
            /\ Cardinality(Idx(c, "driver")) <= maxRetries
            /\ \A n \in 1..run[c].attempt :
                    /\ Times(c, "checkpoint", n) = Due(c, n, {"checkpoint"})
                    /\ Times(c, "startAgent", n) =
                           IF Wired(run[c]) THEN Due(c, n, {"checkpoint", "startAgent"}) ELSE 0
                    /\ Times(c, "driver", n) = Due(c, n, BeforeExecution)
                    /\ \A i \in IdxOf(c, "checkpoint", n) :
                           \A j \in IdxOf(c, "startAgent", n) \cup IdxOf(c, "driver", n) : i < j
                    /\ \A i \in IdxOf(c, "startAgent", n) :
                           \A j \in IdxOf(c, "driver", n) : i < j

\* three attempts made: the first rolled back after an exception, the second
\* after a validation failure, the third begun after both
C29_Witness ==
    /\ Done("ok")
    /\ run["ok"].attempt = maxRetries
    /\ Cardinality(Idx("ok", "driver")) = maxRetries
    /\ IdxOf("ok", "rollback", 1) # {} /\ IdxOf("ok", "sleep", 1) # {}
    /\ IdxOf("ok", "validate", 2) # {} /\ IdxOf("ok", "rollback", 2) # {}

\* C30: (runClaudePrompt on its own) when the error log cannot be written,
\* runClaudePrompt still returns, and returns the failure result it returns
\* when the log is written: the message of the stream's error event with
\* retryable as that error is classified, or the retryable billing failure,
\* at cost 0; the error log is written to for failures only.
C30_ErrorLogFailureLeavesResultAlone ==
    call.phase \in {"driven", "validated"} =>
        LET stream == Seen(call.stream)
            r == call.result
            last == stream[Len(stream)]
        IN  /\ ~call.threw
            /\ call.log = "none" <=> r.success
            /\ call.log = "failed" =>
                  /\ r = runClaudePromptOutcome(call.stream, FALSE).result
                  /\ r.cost = 0
                  /\ IF SafeguardTrips(stream)
                     THEN IsBillingFailure(r) /\ r.retryable
                     ELSE /\ last.type = "error"
                          /\ r.error = last.message
                          /\ r.retryable <=> last.message \in TransientMessages

\* a transient stream error returned as a failure result, the log not written
C30_Witness ==
    /\ call.phase = "driven"
    /\ call.log = "failed"
    /\ ~call.threw
    /\ ~call.result.success /\ call.result.error = "network" /\ call.result.retryable

\* C31: (the loop of processMessageStream event by event) whether the loader
\* is disabled or not and whatever time passes between events, after any
\* number of events the loop has seen exactly the events processMessageStream
\* sees of the stream so far, with the same turn count, text, cost and
\* apiErrorDetected flag, and it ends as processMessageStream does on the
\* whole stream: the heartbeat only prints.
C31_HeartbeatLeavesTheLoopAlone ==
    call.phase \in {"loop", "left", "returned", "threw"} =>
        LET sofar == SubSeq(call.stream, 1, call.st.consumed)
        IN  /\ call.st = processMessageStream(sofar)
            /\ call.phase \in {"returned", "threw"} =>
                  /\ call.st = processMessageStream(call.stream)
                  /\ call.st.consumed = Len(Seen(call.stream))
                  /\ call.phase = "threw" <=> call.st.threw
            /\ ~call.loaderDisabled => call.lines = <<>>

\* a stream returned from with a heartbeat line printed on the way
C31_Witness ==
    /\ call.phase = "returned"
    /\ call.loaderDisabled
    /\ Len(call.lines) >= 1
    /\ call.st.turnCount = 1 /\ call.st.cost = 1 /\ call.st.consumed = 2

\* C32: a result the call returns is a success with a text that is neither
\* null nor empty, and it is the result of the attempt in progress, whose
\* validation passed and was the last one made; a successful driver result
\* without text (the stream ended without a result event) is never on the
\* way to being returned: it goes from validation to the validation failure
\* handling.
C32_ReturnedResultIsValidatedSuccessWithText ==
    \A c \in Runs :
        LET s == run[c]
            validations == Idx(c, "validate")
        IN  /\ s.outcome.kind = "returned" =>
                  /\ s.outcome.result.success
                  /\ ~Falsy(s.outcome.result.result)
                  /\ s.outcome.result.id = s.attempt
                  /\ \E i \in validations :
                        /\ s.ops[i].info = "passed"
                        /\ s.ops[i].attempt = s.attempt
                        /\ \A j \in validations : j <= i
            /\ s.result.success /\ Falsy(s.result.result) =>
                  /\ s.pc \notin {"endSuccess", "commit"}
                  /\ s.outcome.kind # "returned"
                  /\ s.pc # "validate" =>
                        \E i \in validations :
                            /\ s.ops[i].info = "failed"
                            /\ s.ops[i].attempt = s.attempt
                            /\ \A j \in validations : j <= i
            /\ s.pc \in {"endSuccess", "commit"} => s.result.success /\ ~Falsy(s.result.result)

\* a successful driver result without text, no validator registered for the
\* agent, handled as a validation failure
C32_Witness ==
    /\ agentName = "unmapped"
    /\ run["ok"].pc = "endValidationFailure"
    /\ run["ok"].result.success /\ run["ok"].result.result = Null
    /\ run["ok"].ops[Len(run["ok"].ops)].op = "validate"
    /\ run["ok"].ops[Len(run["ok"].ops)].info = "failed"

\* C33: commitGitSuccess is called at most once in a call, and in an attempt
\* whose driver result was a success and whose validation passed, both before
\* the commit; that attempt has no failed validation, no failed driver call
\* and no rollback before the commit, and no validation or driver call is
\* made after it.
C33_CommitOnceForValidatedSuccessOnly ==
    \A c \in Runs :
        LET ops == run[c].ops
        IN  /\ Cardinality(Idx(c, "commit")) <= 1
            /\ \A i \in Idx(c, "commit") :
                  LET n == ops[i].attempt
                  IN  /\ \E j \in IdxOf(c, "driver", n) : j < i /\ ops[j].info = "success"
                      /\ \E j \in IdxOf(c, "validate", n) : j < i /\ ops[j].info = "passed"
                      /\ \A j \in 1..(i - 1) :
                            ops[j].attempt = n =>
                                /\ ops[j].op # "rollback"
                                /\ ops[j].op = "validate" => ops[j].info = "passed"
                                /\ ops[j].op = "driver" => ops[j].info = "success"
                      /\ \A j \in (i + 1)..Len(ops) : ops[j].op \notin {"driver", "validate", "commit"}

\* the commit of the third attempt, the two before it rolled back: one after
\* a failed validation and one after an exception of the driver
C33_Witness ==
    /\ Done("ok")
    /\ IdxOf("ok", "commit", 3) # {}
    /\ \E n, k \in {1, 2} :
          /\ n # k
          /\ IdxOf("ok", "rollback", n) # {} /\ IdxOf("ok", "validate", n) # {}
          /\ IdxOf("ok", "rollback", k) # {} /\ IdxOf("ok", "validate", k) = {}

\* C34: (no version-control operation fails) an attempt rolls back at most
\* once; a rollback comes after the checkpoint of its attempt, which is taken
\* once; so there are never more rollbacks than checkpoints.
C34_AtMostOneRollbackPerCheckpoint ==
    \A c \in Runs :
        /\ \A n \in 1..maxRetries :
              /\ Times(c, "rollback", n) <= 1
              /\ \A i \in IdxOf(c, "rollback", n) :
                    /\ Times(c, "checkpoint", n) = 1
                    /\ \A j \in IdxOf(c, "checkpoint", n) : j < i
        /\ Cardinality(Idx(c, "rollback")) <= Cardinality(Idx(c, "checkpoint"))

\* three attempts each rolled back: after a failed validation, after a
\* retryable exception, and after the failed validation of the last attempt
C34_Witness ==
    /\ Done("ok")
    /\ Cardinality(Idx("ok", "rollback")) = maxRetries
    /\ Cardinality(Idx("ok", "checkpoint")) = maxRetries
    /\ \E i \in Idx("ok", "rollback") : run["ok"].ops[i].info = "validation failure"
    /\ \E i \in Idx("ok", "rollback") : run["ok"].ops[i].info = "retryable error cleanup"
    /\ \E i \in IdxOf("ok", "rollback", maxRetries) :
          run["ok"].ops[i].info = "non-retryable error cleanup"
    /\ IdxOf("ok", "validate", maxRetries) # {}

\* C35: a backoff sleep is made only in an attempt before the last, right
\* after the rollback "retryable error cleanup" of that attempt, and the next
\* thing done is the checkpoint of the following attempt; so a call never
\* ends on a sleep and sleeps at most maxRetries - 1 times; an attempt that
\* reached validation, or failed fatally, has no sleep, and after the
\* rollback of a failed validation the next checkpoint follows at once.
C35_SleepOnlyBetweenFailedAttemptAndNext ==
    \A c \in Runs :
        LET ops == run[c].ops
        IN  /\ Cardinality(Idx(c, "sleep")) <= maxRetries - 1
            /\ \A i \in Idx(c, "sleep") :
                  LET n == ops[i].attempt
                  IN  /\ n < maxRetries
                      /\ i > 1 /\ ops[i - 1].op = "rollback" /\ ops[i - 1].attempt = n
                      /\ ops[i - 1].info = "retryable error cleanup"
                      /\ IdxOf(c, "validate", n) = {} /\ IdxOf(c, "commit", n) = {}
                      /\ Times(c, "sleep", n) = 1
                      /\ i < Len(ops) => ops[i + 1].op = "checkpoint" /\ ops[i + 1].attempt = n + 1
                      /\ i = Len(ops) => run[c].pc = "checkpoint" /\ run[c].attempt = n + 1
            /\ \A i \in Idx(c, "rollback") :
                  ops[i].info \in {"validation failure", "non-retryable error cleanup",
                                   "final failure cleanup"} =>
                      /\ IdxOf(c, "sleep", ops[i].attempt) = {}
                      /\ i < Len(ops) => ops[i + 1].op = "checkpoint"
            /\ Done(c) => Len(ops) > 0 /\ ops[Len(ops)].op # "sleep"

\* a call that slept after its first attempt, retried at once after the
\* failed validation of its second, and ended with its third
C35_Witness ==
    /\ Done("ok")
    /\ run["ok"].attempt = maxRetries
    /\ IdxOf("ok", "sleep", 1) # {}
    /\ \E i \in IdxOf("ok", "rollback", 2) :
          /\ run["ok"].ops[i].info = "validation failure"
          /\ run["ok"].ops[i + 1].op = "checkpoint"
    /\ Idx("ok", "sleep") = IdxOf("ok", "sleep", 1)

\* C36: (calls of runClaudePrompt one after another) a failure result has
\* cost 0 and partial cost 0, whatever was taken from the stream before the
\* failure and whatever the call before it cost: it comes either from an
\* error event, before which no cost was read, or from the billing safeguard
\* on a result event of cost 0.
C36_FailureResultHasNoCost ==
    call.phase \in {"driven", "validated"} /\ ~call.result.success =>
        LET stream == Seen(call.stream)
            r == call.result
            last == stream[Len(stream)]
        IN  /\ r.cost = 0 /\ r.partialCost = 0
            /\ Len(stream) > 0
            /\ \/ last.type = "error" /\ \A i \in 1..Len(stream) : stream[i].cost = 0
               \/ last.type = "result" /\ last.cost = 0 /\ IsBillingFailure(r)

\* the second call fails on an error event after an assistant turn, the
\* first call having cost 1
C36_Witness ==
    /\ call.phase = "driven" /\ call.calls = 2
    /\ call.previous.success /\ call.previous.cost = 1
    /\ Len(call.stream) = 2
    /\ call.stream[1].type = "assistant" /\ call.stream[2].type = "error"
    /\ ~call.result.success /\ call.result.cost = 0

\* C37: in every audit end record of a failure, isFinalAttempt is true
\* exactly when the record's attempt number is maxRetries, and the record
\* carries the number of the attempt in progress when it was written; so the
\* end record of a fatal error raised in attempt 1 or 2 has isFinalAttempt
\* false although the call ends there.
C37_IsFinalAttemptIffLastAttemptNumber ==
    LET audit == run["ok"].audit
    IN  /\ \A k \in 1..Len(audit) :
              audit[k].kind = "end" /\ ~audit[k].success =>
                  /\ audit[k].isFinalAttempt <=> audit[k].attemptNumber = maxRetries
                  /\ \A j \in (k + 1)..Len(audit) : audit[j].attemptNumber >= audit[k].attemptNumber
                  /\ audit[k].attemptNumber <= run["ok"].attempt
        /\ Done("ok") /\ run["ok"].outcome.kind = "threw" /\ run["ok"].attempt < maxRetries
           /\ Len(audit) > 0 =>
              /\ audit[Len(audit)].kind = "end"
              /\ ~audit[Len(audit)].success
              /\ ~audit[Len(audit)].isFinalAttempt

\* a call ended by a fatal error in its second attempt, its end record
\* saying that the attempt was not the last
C37_Witness ==
    /\ Done("ok")
    /\ run["ok"].outcome.kind = "threw" /\ ~isRetryableError(run["ok"].outcome.error)
    /\ run["ok"].attempt = 2
    /\ Len(run["ok"].audit) > 0
    /\ LET rec == run["ok"].audit[Len(run["ok"].audit)]
       IN  rec.kind = "end" /\ ~rec.success /\ rec.attemptNumber = 2 /\ ~rec.isFinalAttempt

====
